---- MODULE Spec2Model ----
(***************************************************************************)
(* The active-session tracker of the extension's background script         *)
(* (background.js): the five module variables, the close operation         *)
(* stopActiveTimer, the serialized entry point handleSwitch, the browser   *)
(* listeners and the pause / resume message handlers.                      *)
(*                                                                         *)
(* JavaScript runs one task at a time; a handler is suspended only at an   *)
(* await of real I/O (tabs.get, tabs.query, the page probe, storage.get).  *)
(* Every action below is one such run-to-suspension segment: the event's   *)
(* arrival, or the delivery of an I/O result to the handler awaiting it.   *)
(* An await of an already settled promise only yields to the microtask     *)
(* queue, which no other handler can enter, so it does not split a segment.*)
(***************************************************************************)
EXTENDS Integers, Sequences, FiniteSets, TLC

(* ------------------------------ bounds --------------------------------- *)

\* handler invocations (browser events and messages) in one behaviour
MaxTasks == 3
\* the logical clock Date.now() runs from 1 to MaxTime
MaxTime == 2
\* browser tabs
NumTabs == 2

Tasks == 1..MaxTasks
TabIds == 1..NumTabs

(* ------------------------------ values --------------------------------- *)

\* null / undefined of a numeric field; falsy in the code's !x tests, as 0 is
Null == 0
\* a URL is a sequence of symbols, so that includes / startsWith are computed;
\* the empty sequence is the missing (undefined, null or empty) URL, all falsy
NoUrl == << >>
UrlA == <<"https://", "a.com">>
UrlB == <<"https://", "b.com">>
UrlExcluded == <<"https://", "example.com", "/page">>
UrlChrome == <<"chrome://", "extensions">>
UrlExt == <<"chrome-extension://", "id">>
\* the URLs the browser shows in the behaviours explored
Urls == {UrlA, UrlB, UrlExcluded, UrlExt}

\* the candidate handleSwitch(null) receives
NoTab == [id |-> Null, url |-> NoUrl]
TabValues == {[id |-> t, url |-> u] : t \in TabIds, u \in Urls}

\* settings.excludeList as the user has set it: it excludes UrlExcluded only
ExcludeList == << <<"blocked.org">>, <<"example.com">> >>

\* probe results: page text and engagement counters <<clicks, keys, scrolls>>
NoText == << >>
NoEng == << >>
Texts == {<<"text">>}
Engagements == {<<1, 0, 0>>}

NoSnap == [tabId |-> Null, url |-> NoUrl, start |-> Null, end |-> Null, sid |-> Null]
NoActive == [tabId |-> Null, url |-> NoUrl, start |-> Null, sid |-> Null]

(* ------------------------------- state --------------------------------- *)

VARIABLES
    activeTabId,  \* let activeTabId
    activeStart,  \* let activeStart
    activeUrl,    \* let activeUrl
    activeSid,    \* history: the task that opened the open session
    paused,       \* let paused
    isSwitching,  \* let isSwitching
    settings,     \* chrome.storage.local "settings"
    now,          \* Date.now()
    tasks,        \* the handler invocations: kind, position, locals
    emitted,      \* the events passed to persistEvent, in call order
    posts,        \* the requests issued to the Remote Sink, in call order
    recording,    \* history: whether returned handlers keep their history
    storage,      \* chrome.storage.local "events", and its requests in flight
    call,         \* a call of a pure function: its arguments and its result
    local,        \* chrome.storage.local as the install handler sees it
    standalone    \* the module variables of the standalone background script

\* what the tracker's handlers never touch
aux == <<storage, call, local, standalone>>

vars == <<activeTabId, activeStart, activeUrl, activeSid, paused, isSwitching,
          settings, recording, aux, now, tasks, emitted, posts>>

\* a handler invocation: its kind, its position, its locals (the candidate tab
\* and the snapshot stopActiveTimer took) and the reply it sent; when recording,
\* also how it ended, the session it closed and the sessions that were being
\* closed when it arrived
IdleTask == [kind |-> "none", pc |-> "idle", tab |-> NoTab, snap |-> NoSnap,
             result |-> "none", reply |-> "none", closed |-> Null, during |-> {}]

\* chrome.storage.local holds no events, and no request is in flight: served
\* counts the get requests of persistEvent answered so far (the k-th is the one
\* for emitted[k]), replies are the answers whose callback has not run yet, sets
\* the set requests issued by the callbacks and not yet carried out
NoStorage == [events |-> << >>, served |-> 0, replies |-> << >>, sets |-> << >>]
NoCall == [fn |-> "none", args |-> << >>, result |-> "none"]

\* a key of chrome.storage.local is << >> when absent and <<value>> when
\* present. Nothing is stored; replies are the results of the install
\* handler's get requests whose callback has not run yet, runs counts the
\* handler's runs, and seeded (history) is the set of keys it has written
NoLocal == [events |-> << >>, settings |-> << >>, replies |-> << >>,
            runs |-> 0, seeded |-> {}]

\* the standalone background script when it has loaded, at time 1: a site of
\* currentSession.sites is tracked once it has an entry. handlers are the
\* listener invocations: position, the tab's URL, the arguments of the
\* saveTabTime call in progress, its caller, and the reply sent.
SaUrls == {UrlA, UrlB, UrlExcluded}
Domain(url) == url[2]
Domains == {Domain(u) : u \in SaUrls}
NoSite == [tracked |-> FALSE, timeSpent |-> 0, visits |-> 0]
IdleHandler == [pc |-> "idle", url |-> NoUrl, saveUrl |-> NoUrl, timeSpent |-> 0,
                caller |-> "none", reply |-> [kind |-> "none"]]
NoStandalone ==
    [isTrackingPaused |-> FALSE,
     currentActiveTab |-> NoUrl,
     tabStartTime |-> Null,
     currentSession |-> [startTime |-> 1, totalTime |-> 0,
                         sites |-> [d \in Domains |-> NoSite]],
     handlers |-> [i \in Tasks |-> IdleHandler]]

InitWith(rec) ==
    /\ recording = rec
    /\ storage = NoStorage
    /\ call = NoCall
    /\ local = NoLocal
    /\ standalone = NoStandalone
    /\ activeTabId = Null
    /\ activeStart = Null
    /\ activeUrl = NoUrl
    /\ activeSid = Null
    /\ paused = FALSE
    /\ isSwitching = FALSE
    /\ settings = [excludeList |-> ExcludeList]
    /\ now = 1
    /\ tasks = [i \in Tasks |-> IdleTask]
    /\ emitted = << >>
    /\ posts = << >>

Init == InitWith(FALSE)

(* ----------------------------- pure parts ------------------------------ *)

\* String.prototype.startsWith
StartsWith(u, p) == Len(u) >= Len(p) /\ SubSeq(u, 1, Len(p)) = p

\* String.prototype.includes
Includes(u, e) ==
    \E k \in 1..(Len(u) + 1) :
        k + Len(e) - 1 <= Len(u) /\ SubSeq(u, k, k + Len(e) - 1) = e

IsPrivileged(u) == StartsWith(u, <<"chrome://">>) \/ StartsWith(u, <<"chrome-extension://">>)

IsExcluded(list, u) == \E k \in 1..Len(list) : Includes(u, list[k])

InvalidTab(tab) == tab.id = Null \/ tab.url = NoUrl

\* fetchPageText, were a failed probe to resolve with text all the same
FetchPageText_TextOnFailure(o) ==
    [text |-> IF o.kind = "response" THEN o.text ELSE <<"text">>,
     engagement |-> IF o.kind = "response" THEN o.engagement ELSE NoEng]

\* the result fetchPageText resolves with, per outcome of the probe
FetchPageText(o) ==
    IF o.kind = "response"
    THEN [text |-> o.text, engagement |-> o.engagement]
    ELSE [text |-> NoText, engagement |-> NoEng]

ProbeThrows == [kind |-> "exception", text |-> NoText, engagement |-> NoEng]
\* what the probe's callbacks can deliver
ProbeCallbacks ==
    {[kind |-> k, text |-> NoText, engagement |-> NoEng] : k \in {"inject_error", "message_error"}}
    \cup {[kind |-> "response", text |-> t, engagement |-> e] : t \in Texts, e \in Engagements}

EngNonzero(e) == e # NoEng /\ (e[1] # 0 \/ e[2] # 0 \/ e[3] # 0)

Event(type, url, ts, duration, data, sid) ==
    [type |-> type, url |-> url, ts |-> ts, duration |-> duration, data |-> data, sid |-> sid]

\* a request to the Remote Sink: its body, and what became of its fetch
SessionPost(url, start, end) ==
    [api |-> "session", url |-> url, startTime |-> start, endTime |-> end,
     duration |-> end - start, html |-> NoText, status |-> "pending"]
HtmlPost(url, text) ==
    [api |-> "html", url |-> url, startTime |-> Null, endTime |-> Null,
     duration |-> Null, html |-> text, status |-> "pending"]

(* --------------------------- stopActiveTimer --------------------------- *)

Active == [tabId |-> activeTabId, url |-> activeUrl, start |-> activeStart, sid |-> activeSid]

HasSession == ~(activeTabId = Null \/ activeStart = Null \/ activeUrl = NoUrl)

\* stopActiveTimer's first part without its guard
StopBegin_NoGuard ==
    [started |-> TRUE, active |-> NoActive,
     snap |-> [tabId |-> activeTabId, url |-> activeUrl, start |-> activeStart,
               end |-> now, sid |-> activeSid]]

\* stopActiveTimer's first part, were the fields cleared after the await only
StopBegin_ClearsLate ==
    IF ~HasSession
    THEN [started |-> FALSE, active |-> Active, snap |-> NoSnap]
    ELSE [started |-> TRUE, active |-> Active,
          snap |-> [tabId |-> activeTabId, url |-> activeUrl, start |-> activeStart,
                    end |-> now, sid |-> activeSid]]

\* the part before the await: the guard, the snapshot and the clearing
StopBegin ==
    IF ~HasSession
    THEN [started |-> FALSE, active |-> Active, snap |-> NoSnap]
    ELSE [started |-> TRUE, active |-> NoActive,
          snap |-> [tabId |-> activeTabId, url |-> activeUrl, start |-> activeStart,
                    end |-> now, sid |-> activeSid]]

\* the requests, were the text sent whatever it is
StopPosts_HtmlAlways(snap, r) ==
    <<SessionPost(snap.url, snap.start, snap.end), HtmlPost(snap.url, r.text)>>

\* the part after the await: the requests to the Remote Sink ...
StopPosts(snap, r) ==
    <<SessionPost(snap.url, snap.start, snap.end)>>
    \o (IF r.text # NoText THEN <<HtmlPost(snap.url, r.text)>> ELSE << >>)

\* the events persisted, were the duration the end time
StopEvents_DurationIsEnd(snap, r) ==
    (IF EngNonzero(r.engagement)
     THEN <<Event("engagement", snap.url, snap.end, Null, r.engagement, snap.sid)>>
     ELSE << >>)
    \o <<Event("session_end", snap.url, snap.end, snap.end, NoEng, snap.sid)>>

\* ... and the events persisted
StopEvents(snap, r) ==
    (IF EngNonzero(r.engagement)
     THEN <<Event("engagement", snap.url, snap.end, Null, r.engagement, snap.sid)>>
     ELSE << >>)
    \o <<Event("session_end", snap.url, snap.end, snap.end - snap.start, NoEng, snap.sid)>>

(* ----------------------------- handleSwitch ---------------------------- *)

SetActive(a) ==
    /\ activeTabId' = a.tabId
    /\ activeUrl' = a.url
    /\ activeStart' = a.start
    /\ activeSid' = a.sid

\* task i, whose record is t, moves on to pc
Goto(i, t, pc) == tasks' = [tasks EXCEPT ![i] = [t EXCEPT !.pc = pc]]

\* task i returns, and its locals are gone; the reply is the one its message
\* handler sends, if any
Finish(i, t, result, reply) ==
    tasks' = [tasks EXCEPT ![i] =
                 IF recording
                 THEN [t EXCEPT !.pc = "done", !.result = result, !.reply = reply,
                                !.closed = t.snap.sid, !.tab = NoTab, !.snap = NoSnap]
                 ELSE [IdleTask EXCEPT !.pc = "done", !.reply = reply]]

\* what the caller does once handleSwitch has returned
ReplyOf(t) == IF t.kind = "resume" THEN "paused_false" ELSE "none"

\* handleSwitch from the end of `await stopActiveTimer()` to its next await or
\* return; a, sw, em, ps are the values the segment has produced so far
HandleSwitchAfterStop(i, t, a, sw, em, ps) ==
    /\ SetActive(a)
    /\ emitted' = em
    /\ posts' = ps
    /\ IF InvalidTab(t.tab) \/ IsPrivileged(t.tab.url)
       THEN /\ isSwitching' = FALSE
            /\ Finish(i, t, "ineligible", ReplyOf(t))
       ELSE /\ isSwitching' = sw
            /\ Goto(i, t, "hs_settings")
    /\ UNCHANGED <<paused, settings, recording, aux, now>>

\* handleSwitch without its busy check
HandleSwitch_NoBusyCheck(i, t, sync) ==
    LET s == StopBegin
        r == FetchPageText(ProbeThrows)
        u == [t EXCEPT !.snap = s.snap]
    IN  IF ~s.started
        THEN HandleSwitchAfterStop(i, u, s.active, TRUE, emitted, posts)
        ELSE IF sync
        THEN HandleSwitchAfterStop(i, u, s.active, TRUE,
                                   emitted \o StopEvents(s.snap, r),
                                   posts \o StopPosts(s.snap, r))
        ELSE /\ SetActive(s.active)
             /\ isSwitching' = TRUE
             /\ Goto(i, u, "hs_probe")
             /\ UNCHANGED <<paused, settings, recording, aux, now, emitted, posts>>

\* handleSwitch(t.tab) from its first line to its first await or return; sync
\* tells whether the probe call throws synchronously (fetchPageText's catch)
HandleSwitch(i, t, sync) ==
    IF isSwitching
    THEN /\ Finish(i, t, "dropped", ReplyOf(t))
         /\ UNCHANGED <<activeTabId, activeStart, activeUrl, activeSid, paused,
                        isSwitching, settings, recording, aux, now, emitted, posts>>
    ELSE LET s == StopBegin
             r == FetchPageText(ProbeThrows)
             u == [t EXCEPT !.snap = s.snap]
         IN  IF ~s.started
             THEN HandleSwitchAfterStop(i, u, s.active, TRUE, emitted, posts)
             ELSE IF sync
             THEN HandleSwitchAfterStop(i, u, s.active, TRUE,
                                        emitted \o StopEvents(s.snap, r),
                                        posts \o StopPosts(s.snap, r))
             ELSE /\ SetActive(s.active)
                  /\ isSwitching' = TRUE
                  /\ Goto(i, u, "hs_probe")
                  /\ UNCHANGED <<paused, settings, recording, aux, now, emitted, posts>>

\* the probe answers the close that handleSwitch awaits
HsProbeReturn(i, o) ==
    /\ tasks[i].pc = "hs_probe"
    /\ LET r == FetchPageText(o)
       IN  HandleSwitchAfterStop(i, tasks[i], Active, isSwitching,
                                 emitted \o StopEvents(tasks[i].snap, r),
                                 posts \o StopPosts(tasks[i].snap, r))

\* the session opened, were the URL of the session just closed kept
OpenSession_StaleUrl(i, tab) ==
    [tabId |-> tab.id,
     url |-> IF tasks[i].snap.sid # Null THEN tasks[i].snap.url ELSE tab.url,
     start |-> now, sid |-> i]

\* the session handleSwitch opens
OpenSession(i, tab) == [tabId |-> tab.id, url |-> tab.url, start |-> now, sid |-> i]

\* the same, without the release of the lock before the excluded URL's return
SettingsReturn_ExcludedKeepsLock(i, ok) ==
    /\ tasks[i].pc = "hs_settings"
    /\ LET t == tasks[i]
       IN  IF ~ok
           THEN /\ Finish(i, t, "error", ReplyOf(t))
                /\ isSwitching' = FALSE
                /\ UNCHANGED <<activeTabId, activeStart, activeUrl, activeSid, emitted>>
           ELSE IF IsExcluded(settings.excludeList, t.tab.url)
           THEN /\ Finish(i, t, "excluded", ReplyOf(t))
                /\ UNCHANGED <<activeTabId, activeStart, activeUrl, activeSid, emitted,
                               isSwitching>>
           ELSE /\ SetActive(OpenSession(i, t.tab))
                /\ emitted' = Append(emitted, Event("session_start", t.tab.url, now, Null, NoEng, i))
                /\ isSwitching' = FALSE
                /\ Finish(i, t, "opened", ReplyOf(t))
    /\ UNCHANGED <<paused, settings, recording, aux, now, posts>>

\* chrome.storage.local.get answers handleSwitch: ok = FALSE is a rejection
SettingsReturn(i, ok) ==
    /\ tasks[i].pc = "hs_settings"
    /\ LET t == tasks[i]
       IN  IF ~ok
           THEN /\ Finish(i, t, "error", ReplyOf(t))
                /\ UNCHANGED <<activeTabId, activeStart, activeUrl, activeSid, emitted>>
           ELSE IF IsExcluded(settings.excludeList, t.tab.url)
           THEN /\ Finish(i, t, "excluded", ReplyOf(t))
                /\ UNCHANGED <<activeTabId, activeStart, activeUrl, activeSid, emitted>>
           ELSE /\ SetActive(OpenSession(i, t.tab))
                /\ emitted' = Append(emitted, Event("session_start", t.tab.url, now, Null, NoEng, i))
                /\ Finish(i, t, "opened", ReplyOf(t))
    /\ isSwitching' = FALSE
    /\ UNCHANGED <<paused, settings, recording, aux, now, posts>>

(* ------------------------------ listeners ------------------------------ *)

\* the sessions whose close a handleSwitch is awaiting
Closing == {tasks[j].snap.sid : j \in {k \in Tasks : tasks[k].pc = "hs_probe"}}

\* the next handler invocation takes the first free slot
Fresh(i) == tasks[i].pc = "idle" /\ (IF i = 1 THEN TRUE ELSE tasks[i - 1].pc # "idle")

\* the record of a handler that starts now
Started(kind, tab) ==
    [IdleTask EXCEPT !.kind = kind, !.tab = tab, !.during = IF recording THEN Closing ELSE {}]

Unchanged == UNCHANGED <<activeTabId, activeStart, activeUrl, activeSid, paused,
                         isSwitching, settings, recording, aux, now, emitted, posts>>

\* `if (paused) return;`
Ignored(i, kind, tab) == Finish(i, Started(kind, tab), "ignored", "none") /\ Unchanged

\* chrome.tabs.onActivated, to its await of tabs.get
OnActivated(i, tabId) ==
    /\ Fresh(i)
    /\ LET tab == [id |-> tabId, url |-> NoUrl]
       IN  IF paused
           THEN Ignored(i, "activated", tab)
           ELSE Goto(i, Started("activated", tab), "tabs_get") /\ Unchanged

\* tabs.get resolves with the tab, which shows url
TabsGetReturn(i, url, sync) ==
    /\ tasks[i].pc = "tabs_get"
    /\ HandleSwitch(i, [tasks[i] EXCEPT !.tab.url = url], sync)

\* tabs.get rejects (the tab is gone): the handler's catch block
TabsGetFails(i) ==
    /\ tasks[i].pc = "tabs_get"
    /\ isSwitching' = FALSE
    /\ Finish(i, tasks[i], "caught", "none")
    /\ UNCHANGED <<activeTabId, activeStart, activeUrl, activeSid, paused,
                   settings, recording, aux, now, emitted, posts>>

\* the focus handler, were it to do nothing for WINDOW_ID_NONE
OnFocusLost_Ignored(i, sync) ==
    /\ Fresh(i)
    /\ Ignored(i, "focus_lost", NoTab)

\* chrome.windows.onFocusChanged with WINDOW_ID_NONE
OnFocusLost(i, sync) ==
    /\ Fresh(i)
    /\ IF paused
       THEN Ignored(i, "focus_lost", NoTab)
       ELSE HandleSwitch(i, Started("focus_lost", NoTab), sync)

\* chrome.windows.onFocusChanged with a window, to its await of tabs.query
OnFocusGained(i) ==
    /\ Fresh(i)
    /\ IF paused
       THEN Ignored(i, "focus_gained", NoTab)
       ELSE Goto(i, Started("focus_gained", NoTab), "focus_query") /\ Unchanged

\* tabs.query resolves: tab is tabs[0], or NoTab when the window has none
FocusQueryReturn(i, tab, sync) ==
    /\ tasks[i].pc = "focus_query"
    /\ HandleSwitch(i, [tasks[i] EXCEPT !.tab = tab], sync)

\* tabs.query rejects: the handler's catch block
FocusQueryFails(i) ==
    /\ tasks[i].pc = "focus_query"
    /\ isSwitching' = FALSE
    /\ Finish(i, tasks[i], "caught", "none")
    /\ UNCHANGED <<activeTabId, activeStart, activeUrl, activeSid, paused,
                   settings, recording, aux, now, emitted, posts>>

\* the tab-updated handler, were it to take a finished load of any tab
OnUpdated_AnyTab(i, tab, complete, sync) ==
    /\ Fresh(i)
    /\ IF paused
       THEN Ignored(i, "updated", tab)
       ELSE IF complete
       THEN HandleSwitch(i, Started("updated", tab), sync)
       ELSE Ignored(i, "updated", tab)

\* chrome.tabs.onUpdated(tabId, changeInfo, tab); complete is
\* changeInfo.status === "complete"
OnUpdated(i, tab, complete, sync) ==
    /\ Fresh(i)
    /\ IF paused
       THEN Ignored(i, "updated", tab)
       ELSE IF tab.id = activeTabId /\ complete
       THEN HandleSwitch(i, Started("updated", tab), sync)
       ELSE Ignored(i, "updated", tab)

(* --------------------------- message handlers -------------------------- *)

\* {type: "pause"}, to the await of the probe or, when there is nothing to
\* close or the probe call throws, to the reply
OnPause(i, sync) ==
    /\ Fresh(i)
    /\ paused' = TRUE
    /\ LET s == StopBegin
           r == FetchPageText(ProbeThrows)
           t == [Started("pause", NoTab) EXCEPT !.snap = s.snap]
       IN  /\ SetActive(s.active)
           /\ IF ~s.started
              THEN /\ Finish(i, t, "nothing", "paused_true")
                   /\ UNCHANGED <<emitted, posts>>
              ELSE IF sync
              THEN /\ emitted' = emitted \o StopEvents(s.snap, r)
                   /\ posts' = posts \o StopPosts(s.snap, r)
                   /\ Finish(i, t, "closed", "paused_true")
              ELSE /\ Goto(i, t, "pause_probe")
                   /\ UNCHANGED <<emitted, posts>>
    /\ UNCHANGED <<isSwitching, settings, recording, aux, now>>

\* the rest of the pause's close, were it to read the module variables again
\* rather than the values captured before the await
PauseProbeReturn_LiveState(i, o) ==
    /\ tasks[i].pc = "pause_probe"
    /\ LET r == FetchPageText(o)
           live == [tasks[i].snap EXCEPT !.url = activeUrl, !.start = activeStart]
       IN  /\ emitted' = emitted \o StopEvents(live, r)
           /\ posts' = posts \o StopPosts(live, r)
    /\ Finish(i, tasks[i], "closed", "paused_true")
    /\ UNCHANGED <<activeTabId, activeStart, activeUrl, activeSid, paused,
                   isSwitching, settings, recording, aux, now>>

\* the probe answers the close that the pause handler awaits
PauseProbeReturn(i, o) ==
    /\ tasks[i].pc = "pause_probe"
    /\ LET r == FetchPageText(o)
       IN  /\ emitted' = emitted \o StopEvents(tasks[i].snap, r)
           /\ posts' = posts \o StopPosts(tasks[i].snap, r)
    /\ Finish(i, tasks[i], "closed", "paused_true")
    /\ UNCHANGED <<activeTabId, activeStart, activeUrl, activeSid, paused,
                   isSwitching, settings, recording, aux, now>>

\* the resume handler, were it to leave the paused flag as it is
OnResume_PausedKept(i) ==
    /\ Fresh(i)
    /\ Goto(i, Started("resume", NoTab), "resume_query")
    /\ UNCHANGED <<activeTabId, activeStart, activeUrl, activeSid, paused,
                   isSwitching, settings, recording, aux, now, emitted, posts>>

\* {type: "resume"}, to its await of tabs.query
OnResume(i) ==
    /\ Fresh(i)
    /\ paused' = FALSE
    /\ Goto(i, Started("resume", NoTab), "resume_query")
    /\ UNCHANGED <<activeTabId, activeStart, activeUrl, activeSid,
                   isSwitching, settings, recording, aux, now, emitted, posts>>

\* tabs.query resolves: tab is tabs[0], or NoTab when there is none
ResumeQueryReturn(i, tab, sync) ==
    /\ tasks[i].pc = "resume_query"
    /\ IF tab = NoTab
       THEN Finish(i, tasks[i], "no_tab", "paused_false") /\ Unchanged
       ELSE HandleSwitch(i, [tasks[i] EXCEPT !.tab = tab], sync)

\* tabs.query rejects inside the async function: nothing catches it and no
\* reply is sent
ResumeQueryFails(i) ==
    /\ tasks[i].pc = "resume_query"
    /\ Finish(i, tasks[i], "rejected", "none")
    /\ Unchanged

\* the messages a page pushes come from sender.tab; a sender without a tab
\* (the popup) is NoTab, its sender.tab?.url being undefined
Senders == TabValues \cup {NoTab}

\* `sender.tab?.url == activeUrl`, which undefined and null satisfy
FromActiveUrl_LooseEquality(sender) == sender.url = activeUrl

\* `sender.tab?.url === activeUrl`: an undefined sender URL is not the null
\* activeUrl, so the two are equal only as the same string
FromActiveUrl(sender) == sender.url # NoUrl /\ sender.url = activeUrl

\* {type: "engagement", data}
OnEngagement(i, sender, data) ==
    /\ Fresh(i)
    /\ emitted' = IF FromActiveUrl(sender)
                  THEN Append(emitted, Event("engagement", sender.url, now, Null, data, activeSid))
                  ELSE emitted
    /\ Finish(i, Started("engagement", sender), "replied", "ok_true")
    /\ UNCHANGED <<activeTabId, activeStart, activeUrl, activeSid, paused,
                   isSwitching, settings, recording, aux, now, posts>>

\* {type: "page_html", text}
OnPageHtml(i, sender, text) ==
    /\ Fresh(i)
    /\ posts' = IF FromActiveUrl(sender)
                THEN Append(posts, HtmlPost(sender.url, text))
                ELSE posts
    /\ Finish(i, Started("page_html", sender), "replied", "ok_true")
    /\ UNCHANGED <<activeTabId, activeStart, activeUrl, activeSid, paused,
                   isSwitching, settings, recording, aux, now, emitted>>

(* --------------------------- periodic flush --------------------------- *)

\* what the callback of the flush's sendMessage can receive: lastError, or a
\* response without counters, with counters all zero, with a nonzero counter
FlushCallbacks ==
    {[kind |-> "message_error", text |-> NoText, engagement |-> NoEng]}
    \cup {[kind |-> "response", text |-> NoText, engagement |-> e] :
              e \in Engagements \cup {NoEng, <<0, 0, 0>>}}

\* the interval's callback, to the sendMessage to the active tab; sync tells
\* whether sendMessage throws, which the try block catches. The handler's snap
\* is history: the session that is open when the counters are requested.
OnFlush(i, sync) ==
    /\ Fresh(i)
    /\ IF paused \/ activeTabId = Null \/ activeUrl = NoUrl
       THEN Finish(i, Started("flush", NoTab), "ignored", "none")
       ELSE LET t == [Started("flush", [id |-> activeTabId, url |-> NoUrl])
                         EXCEPT !.snap = [tabId |-> activeTabId, url |-> activeUrl,
                                          start |-> activeStart, end |-> Null,
                                          sid |-> activeSid]]
            IN  IF sync
                THEN Finish(i, t, "caught", "none")
                ELSE Goto(i, t, "flush_probe")
    /\ Unchanged

\* the callback of the flush, were it to persist whatever it receives
FlushReturn_AlwaysAppends(i, o) ==
    /\ tasks[i].pc = "flush_probe"
    /\ emitted' = Append(emitted, Event("engagement", activeUrl, now, Null,
                                        o.engagement, activeSid))
    /\ Finish(i, tasks[i], "flushed", "none")
    /\ UNCHANGED <<activeTabId, activeStart, activeUrl, activeSid, paused,
                   isSwitching, settings, recording, aux, now, posts>>

\* the callback of the flush's sendMessage: the event's url is the activeUrl
\* of the moment the callback runs
FlushReturn(i, o) ==
    /\ tasks[i].pc = "flush_probe"
    /\ emitted' = IF o.kind = "response" /\ EngNonzero(o.engagement)
                  THEN Append(emitted, Event("engagement", activeUrl, now, Null,
                                             o.engagement, activeSid))
                  ELSE emitted
    /\ Finish(i, tasks[i], "flushed", "none")
    /\ UNCHANGED <<activeTabId, activeStart, activeUrl, activeSid, paused,
                   isSwitching, settings, recording, aux, now, posts>>

(* ---------------------------- persistEvent ---------------------------- *)

\* 14 * 24 * 60 * 60 * 1000 ms, in units of the logical clock
Retention == 1

\* events.filter((e) => e.ts >= twoWeeks), without the filter
Pruned_KeepsAll(events, cutoff) == events

\* events.filter((e) => e.ts >= twoWeeks)
Pruned(events, cutoff) == SelectSeq(events, LAMBDA e : e.ts >= cutoff)

\* chrome.storage.local carries out the oldest request in flight. Requests are
\* served in the order they were issued: a set issued when `after` events had
\* been passed to persistEvent follows the get requests of those events.
StorageServes ==
    /\ IF storage.sets # << >> /\ Head(storage.sets).after <= storage.served
       THEN storage' = [storage EXCEPT !.events = Head(storage.sets).events,
                                       !.sets = Tail(storage.sets)]
       ELSE /\ storage.served < Len(emitted)
            /\ storage' = [storage EXCEPT
                               !.served = storage.served + 1,
                               !.replies = Append(storage.replies,
                                                  [res |-> storage.events,
                                                   event |-> emitted[storage.served + 1]])]
    /\ UNCHANGED <<activeTabId, activeStart, activeUrl, activeSid, paused, isSwitching,
                   settings, recording, call, local, standalone, now, tasks, emitted, posts>>

\* the callback of persistEvent's get: prune, push, set
PersistCallback ==
    /\ storage.replies # << >>
    /\ LET r == Head(storage.replies)
           twoWeeks == now - Retention
           filtered == Append(Pruned(r.res, twoWeeks), r.event)
       IN  storage' = [storage EXCEPT
                          !.replies = Tail(storage.replies),
                          !.sets = Append(storage.sets,
                                          [events |-> filtered, after |-> Len(emitted),
                                           cutoff |-> twoWeeks])]
    /\ UNCHANGED <<activeTabId, activeStart, activeUrl, activeSid, paused, isSwitching,
                   settings, recording, call, local, standalone, now, tasks, emitted, posts>>

\* days pass
MaxLateTime == 3

LateTick ==
    /\ now < MaxLateTime
    /\ now' = now + 1
    /\ UNCHANGED <<activeTabId, activeStart, activeUrl, activeSid, paused,
                   isSwitching, settings, recording, aux, tasks, emitted, posts>>

(* ------------------------------ onInstalled ---------------------------- *)

\* the runs of the install handler (install, update, update)
MaxInstalls == 3

\* the settings the handler seeds
DefaultSettings == [contentScanning |-> FALSE, excludeList |-> << >>]

\* what the two keys can hold when the extension is installed or updated:
\* nothing, the seeded values, or what the tracker and the user have stored
StoredEvents ==
    { << >>, << << >> >>,
      << <<Event("session_start", UrlA, 1, Null, NoEng, 1)>> >>,
      << <<Event("session_start", UrlA, 1, Null, NoEng, 1),
           Event("session_end", UrlA, 2, 1, NoEng, 1)>> >> }
StoredSettings ==
    { << >>, <<DefaultSettings>>,
      <<[contentScanning |-> TRUE, excludeList |-> << >>]>>,
      <<[contentScanning |-> FALSE, excludeList |-> ExcludeList]>>,
      <<[contentScanning |-> TRUE, excludeList |-> ExcludeList]>> }

\* chrome.runtime.onInstalled: the get of the two keys is issued and answered
OnInstalled ==
    /\ local.runs < MaxInstalls
    /\ local' = [local EXCEPT
                    !.runs = local.runs + 1,
                    !.replies = Append(local.replies,
                                       [events |-> local.events, settings |-> local.settings])]
    /\ UNCHANGED <<activeTabId, activeStart, activeUrl, activeSid, paused, isSwitching,
                   settings, recording, storage, call, standalone, now, tasks, emitted, posts>>

\* the callback, were it to seed both keys whatever the get returned
InstalledCallback_SeedsAlways ==
    /\ local.replies # << >>
    /\ local' = [local EXCEPT
                    !.replies = Tail(local.replies),
                    !.events = << << >> >>,
                    !.settings = <<DefaultSettings>>,
                    !.seeded = {"events", "settings"}]
    /\ UNCHANGED <<activeTabId, activeStart, activeUrl, activeSid, paused, isSwitching,
                   settings, recording, storage, call, standalone, now, tasks, emitted, posts>>

\* the callback of the get: `if (!res.events) set({events: []})` and the same
\* for settings; a stored list, also an empty one, and a stored object are
\* truthy
InstalledCallback ==
    /\ local.replies # << >>
    /\ LET res == Head(local.replies)
       IN  local' = [local EXCEPT
                        !.replies = Tail(local.replies),
                        !.events = IF res.events = << >> THEN << << >> >> ELSE local.events,
                        !.settings = IF res.settings = << >>
                                     THEN <<DefaultSettings>> ELSE local.settings,
                        !.seeded = local.seeded
                                   \cup (IF res.events = << >> THEN {"events"} ELSE {})
                                   \cup (IF res.settings = << >> THEN {"settings"} ELSE {})]
    /\ UNCHANGED <<activeTabId, activeStart, activeUrl, activeSid, paused, isSwitching,
                   settings, recording, storage, call, standalone, now, tasks, emitted, posts>>

(* ----------------------------- Remote Sink ----------------------------- *)

\* the settling of a fetch, were a failed request issued again
FetchSettles_Retried(k, ok) ==
    /\ k \in 1..Len(posts)
    /\ posts[k].status = "pending"
    /\ posts' = IF ok
                THEN [posts EXCEPT ![k].status = "settled"]
                ELSE Append([posts EXCEPT ![k].status = "failed"], posts[k])
    /\ UNCHANGED <<activeTabId, activeStart, activeUrl, activeSid, paused,
                   isSwitching, settings, recording, aux, now, tasks, emitted>>

\* the fetch of request k settles: it resolves (whatever the HTTP status) or
\* it rejects, which sendSessionToBackend / sendHtmlToBackend catch and log
FetchSettles(k, ok) ==
    /\ k \in 1..Len(posts)
    /\ posts[k].status = "pending"
    /\ posts' = [posts EXCEPT ![k].status = IF ok THEN "settled" ELSE "failed"]
    /\ UNCHANGED <<activeTabId, activeStart, activeUrl, activeSid, paused,
                   isSwitching, settings, recording, aux, now, tasks, emitted>>

(* ------------------ the development-mode tracker variant --------------- *)
(* The earlier background.js with the DEV_MODE flag: no lock, handleSwitch   *)
(* is a storage.get callback, and stopActiveTimer is called without await,  *)
(* so that the rest of a close runs on its own once the probe answers. The  *)
(* logical clock counts half seconds here.                                  *)

DEV_MODE == TRUE

\* Math.round(ms / 1000) of d half seconds
DurationSeconds(d) == (d + 1) \div 2

\* sendSessionToBackend without the development-mode return
DevSendSession_Always(url, start, end) ==
    <<[api |-> "session", url |-> url, startTime |-> start, endTime |-> end,
       duration |-> DurationSeconds(end - start), html |-> NoText, status |-> "pending"]>>

\* the requests sendSessionToBackend issues
DevSendSession(url, start, end) ==
    IF DEV_MODE
    THEN << >>
    ELSE <<[api |-> "session", url |-> url, startTime |-> start, endTime |-> end,
            duration |-> DurationSeconds(end - start), html |-> NoText,
            status |-> "pending"]>>

\* the requests sendHtmlToBackend issues
DevSendHtml(url, text) == IF DEV_MODE THEN << >> ELSE <<HtmlPost(url, text)>>

\* stopActiveTimer to its await: nothing is cleared; end, tabId and url are
\* copied, and snap.start is the activeStart that durationSeconds is computed
\* from. NoSnap when no session is open.
DevStopBegin ==
    IF ~HasSession
    THEN NoSnap
    ELSE [tabId |-> activeTabId, url |-> activeUrl, start |-> activeStart,
          end |-> now, sid |-> activeSid]

\* a handler whose last act was stopActiveTimer(): what remains of it is the
\* close awaiting the probe, if a session was open
DevStop(i, t, result) ==
    IF DevStopBegin = NoSnap
    THEN Finish(i, t, result, t.reply)
    ELSE Goto(i, [t EXCEPT !.snap = DevStopBegin], "dev_probe")

\* the probe answers: the rest of stopActiveTimer
DevProbeReturn(i, text) ==
    /\ tasks[i].pc = "dev_probe"
    /\ LET sn == tasks[i].snap
       IN  /\ posts' = posts \o DevSendSession(sn.url, activeStart, sn.end)
                             \o DevSendHtml(sn.url, text)
           /\ emitted' = Append(emitted,
                                Event("session_end", sn.url, sn.end,
                                      DurationSeconds(sn.end - sn.start), NoEng, sn.sid))
    /\ SetActive(NoActive)
    /\ Finish(i, tasks[i], "closed", tasks[i].reply)
    /\ UNCHANGED <<paused, isSwitching, settings, recording, aux, now>>

\* handleSwitch(t.tab) to its storage.get
DevHandleSwitch(i, t) ==
    /\ IF t.tab.url = NoUrl \/ paused \/ IsPrivileged(t.tab.url)
       THEN Finish(i, t, "ineligible", t.reply)
       ELSE Goto(i, t, "dev_settings")
    /\ Unchanged

\* the callback of handleSwitch's storage.get; ok = FALSE is a failed read,
\* with which the callback throws
DevSettingsReturn(i, ok) ==
    /\ tasks[i].pc = "dev_settings"
    /\ LET t == tasks[i]
       IN  IF ~ok \/ IsExcluded(settings.excludeList, t.tab.url)
           THEN Finish(i, t, "excluded", t.reply) /\ Unchanged
           ELSE /\ IF activeTabId # t.tab.id \/ activeUrl # t.tab.url
                   THEN DevStop(i, t, "opened")
                   ELSE Finish(i, t, "opened", t.reply)
                /\ SetActive([tabId |-> t.tab.id, url |-> t.tab.url, start |-> now, sid |-> i])
                /\ emitted' = Append(emitted,
                                     Event("session_start", t.tab.url, now, Null, NoEng, i))
                /\ UNCHANGED <<paused, isSwitching, settings, recording, aux, now, posts>>

DevOnActivated(i, tabId) ==
    /\ Fresh(i)
    /\ LET tab == [id |-> tabId, url |-> NoUrl]
       IN  IF paused
           THEN Ignored(i, "activated", tab)
           ELSE Goto(i, Started("activated", tab), "dev_tabs_get") /\ Unchanged

\* tabs.get resolves with the tab, or rejects (url = NoUrl stands for that too:
\* handleSwitch returns at once for a tab without URL)
DevTabsGetReturn(i, url) ==
    /\ tasks[i].pc = "dev_tabs_get"
    /\ DevHandleSwitch(i, [tasks[i] EXCEPT !.tab.url = url])

\* focus lost: blurTimeout = setTimeout(() => stopActiveTimer(), 250). The
\* timer blurTimeout names is at "dev_blur", the earlier ones at "dev_blur_old".
DevOnFocusLost(i) ==
    /\ Fresh(i)
    /\ IF paused
       THEN Ignored(i, "focus_lost", NoTab)
       ELSE /\ tasks' = [j \in Tasks |->
                            IF j = i
                            THEN [Started("focus_lost", NoTab) EXCEPT !.pc = "dev_blur"]
                            ELSE IF tasks[j].pc = "dev_blur"
                            THEN [tasks[j] EXCEPT !.pc = "dev_blur_old"]
                            ELSE tasks[j]]
            /\ Unchanged

\* the oldest pending blur timer fires
DevBlurFires(i) ==
    /\ tasks[i].pc \in {"dev_blur", "dev_blur_old"}
    /\ \A j \in 1..(i - 1) : tasks[j].pc \notin {"dev_blur", "dev_blur_old"}
    /\ DevStop(i, tasks[i], "nothing")
    /\ Unchanged

\* focus gained: clearTimeout(blurTimeout), then tabs.query
DevOnFocusGained(i) ==
    /\ Fresh(i)
    /\ IF paused
       THEN Ignored(i, "focus_gained", NoTab)
       ELSE /\ tasks' = [j \in Tasks |->
                            IF j = i
                            THEN [Started("focus_gained", NoTab) EXCEPT !.pc = "dev_query"]
                            ELSE IF tasks[j].pc = "dev_blur"
                            THEN [IdleTask EXCEPT !.pc = "done"]
                            ELSE tasks[j]]
            /\ Unchanged

\* the callback of tabs.query, of the focus handler or of resume
DevQueryReturn(i, tab) ==
    /\ tasks[i].pc = "dev_query"
    /\ IF tab = NoTab
       THEN Finish(i, tasks[i], "no_tab", tasks[i].reply) /\ Unchanged
       ELSE DevHandleSwitch(i, [tasks[i] EXCEPT !.tab = tab])

\* tabs.onUpdated; urlChanged is changeInfo.url being set
DevOnUpdated(i, tab, urlChanged) ==
    /\ Fresh(i)
    /\ IF ~paused /\ tab.id = activeTabId /\ urlChanged
       THEN DevHandleSwitch(i, Started("updated", tab))
       ELSE Ignored(i, "updated", tab)

\* {type: "pause"}: the reply does not wait for the close
DevOnPause(i) ==
    /\ Fresh(i)
    /\ paused' = TRUE
    /\ DevStop(i, [Started("pause", NoTab) EXCEPT !.reply = "paused_true"], "nothing")
    /\ UNCHANGED <<activeTabId, activeStart, activeUrl, activeSid, isSwitching,
                   settings, recording, aux, now, emitted, posts>>

\* {type: "resume"}: the reply does not wait for tabs.query
DevOnResume(i) ==
    /\ Fresh(i)
    /\ paused' = FALSE
    /\ Goto(i, [Started("resume", NoTab) EXCEPT !.reply = "paused_false"], "dev_query")
    /\ UNCHANGED <<activeTabId, activeStart, activeUrl, activeSid, isSwitching,
                   settings, recording, aux, now, emitted, posts>>

\* {type: "engagement"}: persisted whatever the sender
DevOnEngagement(i, sender, data) ==
    /\ Fresh(i)
    /\ emitted' = Append(emitted, Event("engagement", sender.url, now, Null, data, Null))
    /\ Finish(i, Started("engagement", sender), "replied", "ok_true")
    /\ UNCHANGED <<activeTabId, activeStart, activeUrl, activeSid, paused,
                   isSwitching, settings, recording, aux, now, posts>>

\* {type: "page_html"}
DevOnPageHtml(i, sender, text) ==
    /\ Fresh(i)
    /\ posts' = posts \o DevSendHtml(sender.url, text)
    /\ Finish(i, Started("page_html", sender), "replied", "ok_true")
    /\ UNCHANGED <<activeTabId, activeStart, activeUrl, activeSid, paused,
                   isSwitching, settings, recording, aux, now, emitted>>

(* -------------------- the standalone background script ----------------- *)
(* Its clock counts half seconds. A handler is suspended at its awaits of     *)
(* chrome.storage and of the API; the awaits in a row that touch no module    *)
(* variable (the three of updateStoredData, those of sendToAPI, those of      *)
(* requestContentAnalysis) are one suspension.                                *)

\* 1000 ms
OneSecond == 2
MaxSaTime == 3

\* excludedSites as seeded by initializeStorage, with one site the user added
ExcludedSites == << <<"chrome://">>, <<"chrome-extension://">>, <<"about:">>, <<"example.com">> >>

SaFrame == UNCHANGED <<activeTabId, activeStart, activeUrl, activeSid, paused, isSwitching,
                       settings, recording, storage, call, local, now, tasks, emitted, posts>>

SaTick ==
    /\ now < MaxSaTime
    /\ now' = now + 1
    /\ UNCHANGED <<activeTabId, activeStart, activeUrl, activeSid, paused,
                   isSwitching, settings, recording, aux, tasks, emitted, posts>>

SaFresh(i) ==
    /\ standalone.handlers[i].pc = "idle"
    /\ (IF i = 1 THEN TRUE ELSE standalone.handlers[i - 1].pc # "idle")

\* the handler i returns, having sent reply (if any)
SaDone(sa, i, reply) ==
    [sa EXCEPT !.handlers[i] = [IdleHandler EXCEPT !.pc = "done", !.reply = reply]]

\* the first line of saveTabTime: the call returns at once
SaveSkips(url, isPaused, timeSpent) == url = NoUrl \/ isPaused \/ timeSpent < OneSecond

\* what the caller of saveTabTime does once the call has returned: onUpdated
\* takes the tab's URL as the current one and goes on to trackPageVisit, which
\* awaits the settings; pauseTracking clears tabStartTime and stores the flag
AfterSave(sa, i, h) ==
    IF h.caller = "updated"
    THEN [sa EXCEPT !.currentActiveTab = h.url,
                    !.tabStartTime = now,
                    !.handlers[i] = [h EXCEPT !.pc = "visit_get"]]
    ELSE [sa EXCEPT !.tabStartTime = Null,
                    !.handlers[i] = [h EXCEPT !.pc = "pause_set"]]

\* the first lines of updateStoredData
UpdateStoredData(session) ==
    [session EXCEPT !.totalTime = now - session.startTime]

\* chrome.tabs.onUpdated(tabId, changeInfo, tab) with tab.url = url; complete
\* is changeInfo.status === 'complete'
SaOnUpdated(i, url, complete) ==
    /\ SaFresh(i)
    /\ LET sa == standalone
           elapsed == now - sa.tabStartTime
           h == [IdleHandler EXCEPT !.url = url, !.caller = "updated"]
       IN  IF sa.isTrackingPaused \/ ~complete \/ url = NoUrl
           THEN standalone' = SaDone(sa, i, [kind |-> "none"])
           ELSE IF /\ sa.currentActiveTab # NoUrl
                   /\ sa.currentActiveTab # url
                   /\ sa.tabStartTime # Null
                   /\ ~SaveSkips(sa.currentActiveTab, sa.isTrackingPaused, elapsed)
           THEN standalone' = [sa EXCEPT !.handlers[i] =
                                  [h EXCEPT !.pc = "save_get",
                                            !.saveUrl = sa.currentActiveTab,
                                            !.timeSpent = elapsed]]
           ELSE standalone' = AfterSave(sa, i, h)
    /\ SaFrame

\* saveTabTime: chrome.storage.sync.get(['excludedSites']) has answered
SaSaveGetReturn(i) ==
    /\ standalone.handlers[i].pc = "save_get"
    /\ LET sa == standalone
           h == sa.handlers[i]
           d == Domain(h.saveUrl)
           site == sa.currentSession.sites[d]
       IN  IF IsExcluded(ExcludedSites, h.saveUrl)
           THEN standalone' = AfterSave(sa, i, h)
           ELSE standalone' =
                   [sa EXCEPT !.currentSession.sites[d] =
                                  [tracked |-> TRUE,
                                   timeSpent |-> site.timeSpent + h.timeSpent,
                                   visits |-> site.visits + 1],
                              !.currentSession.totalTime =
                                  sa.currentSession.totalTime + h.timeSpent,
                              !.handlers[i] = [h EXCEPT !.pc = "save_api"]]
    /\ SaFrame

\* saveTabTime: sendToAPI has returned, whatever became of the request, and
\* updateStoredData runs to its first await
SaSaveApiReturn(i) ==
    /\ standalone.handlers[i].pc = "save_api"
    /\ standalone' = [standalone EXCEPT
                         !.currentSession = UpdateStoredData(standalone.currentSession),
                         !.handlers[i].pc = "save_stored"]
    /\ SaFrame

\* saveTabTime: updateStoredData has returned, and so does saveTabTime
SaSaveStoredReturn(i) ==
    /\ standalone.handlers[i].pc = "save_stored"
    /\ standalone' = AfterSave(standalone, i, standalone.handlers[i])
    /\ SaFrame

\* trackPageVisit: the settings have answered (trackingEnabled being set)
SaVisitGetReturn(i) ==
    /\ standalone.handlers[i].pc = "visit_get"
    /\ LET sa == standalone
           h == sa.handlers[i]
           d == Domain(h.url)
           site == sa.currentSession.sites[d]
       IN  IF IsExcluded(ExcludedSites, h.url)
           THEN standalone' = SaDone(sa, i, [kind |-> "none"])
           ELSE standalone' =
                   [sa EXCEPT !.currentSession =
                                  UpdateStoredData(
                                      [sa.currentSession EXCEPT !.sites[d] =
                                          [site EXCEPT !.tracked = TRUE,
                                                       !.visits = site.visits + 1]]),
                              !.handlers[i] = [h EXCEPT !.pc = "visit_stored"]]
    /\ SaFrame

\* trackPageVisit's updateStoredData and requestContentAnalysis have returned
SaVisitStoredReturn(i) ==
    /\ standalone.handlers[i].pc = "visit_stored"
    /\ standalone' = SaDone(standalone, i, [kind |-> "none"])
    /\ SaFrame

\* {type: 'pauseTracking'}: pauseTracking to its first await
SaPause(i) ==
    /\ SaFresh(i)
    /\ LET sa == [standalone EXCEPT !.isTrackingPaused = TRUE]
           elapsed == now - sa.tabStartTime
           h == [IdleHandler EXCEPT !.caller = "pause"]
       IN  IF sa.currentActiveTab # NoUrl /\ sa.tabStartTime # Null
           THEN LET g == [h EXCEPT !.saveUrl = sa.currentActiveTab, !.timeSpent = elapsed]
                IN  IF SaveSkips(sa.currentActiveTab, sa.isTrackingPaused, elapsed)
                    THEN standalone' = AfterSave(sa, i, g)
                    ELSE standalone' = [sa EXCEPT !.handlers[i] = [g EXCEPT !.pc = "save_get"]]
           ELSE standalone' = [sa EXCEPT !.handlers[i] = [h EXCEPT !.pc = "pause_set"]]
    /\ SaFrame

\* {type: 'resumeTracking'}: resumeTracking to its await
SaResume(i) ==
    /\ SaFresh(i)
    /\ LET sa == [standalone EXCEPT !.isTrackingPaused = FALSE]
           h == [IdleHandler EXCEPT !.pc = "resume_set", !.caller = "resume"]
       IN  standalone' =
               [sa EXCEPT !.tabStartTime = IF sa.currentActiveTab # NoUrl
                                           THEN now ELSE sa.tabStartTime,
                          !.handlers[i] = h]
    /\ SaFrame

\* chrome.storage.local.set({isTrackingPaused}) has answered: the reply
SaFlagStored(i) ==
    /\ standalone.handlers[i].pc \in {"pause_set", "resume_set"}
    /\ standalone' = SaDone(standalone, i,
                            [kind |-> "success",
                             paused |-> standalone.handlers[i].pc = "pause_set"])
    /\ SaFrame

\* getTodayStats: the stats of the current session (the stored sessions of the
\* day are left out); ok = FALSE is a storage read that fails, after which
\* the catch block returns the empty stats
GetTodayStats(ok) ==
    LET session == standalone.currentSession
        tracked == {d \in Domains : session.sites[d].tracked}
    IN  [totalTime |-> IF ok THEN DurationSeconds(session.totalTime) ELSE 0,
         topSites |-> IF ok
                      THEN {[domain |-> d, totalTime |-> session.sites[d].timeSpent,
                             visits |-> session.sites[d].visits] : d \in tracked}
                      ELSE {},
         isPaused |-> standalone.isTrackingPaused,
         sessionCount |-> IF ok THEN 1 ELSE 0]

\* what the message handler answers once getTodayStats has returned: its log
\* line reads stats.sites.length, which throws when stats has no sites, and
\* the catch block answers {error}
StatsReply(stats) ==
    IF "sites" \in DOMAIN stats
    THEN [kind |-> "stats", stats |-> stats]
    ELSE [kind |-> "error"]

\* {type: 'getTodayStats'}, to the await of the stored sessions
SaGetTodayStats(i) ==
    /\ SaFresh(i)
    /\ standalone' = [standalone EXCEPT !.handlers[i] = [IdleHandler EXCEPT !.pc = "stats_get"]]
    /\ SaFrame

\* the stored sessions have answered
SaStatsReturn(i, ok) ==
    /\ standalone.handlers[i].pc = "stats_get"
    /\ standalone' = SaDone(standalone, i, StatsReply(GetTodayStats(ok)))
    /\ SaFrame

(* ---------------- categorizeUrl (standalone background script) -------- *)
(* Strings are sequences of characters here, a URL's scheme being one       *)
(* symbol.                                                                  *)

\* patterns of DEFAULT_CATEGORY_PATTERNS
Jira == <<"j", "i", "r", "a", ".">>
Docs == <<"d", "o", "c", "s", ".", "g", "o", "o", "g", "l", "e", ".", "c", "o", "m">>
XCom == <<"x", ".", "c", "o", "m">>
MitEdu == <<"m", "i", "t", ".", "e", "d", "u">>

\* the URLs categorized: hostnames matching none, one or two of the patterns,
\* in upper case, with a pattern in the path only, and without a scheme
CatUrls ==
    { <<"https://">> \o Jira \o MitEdu,
      <<"https://">> \o <<"J", "i", "r", "a", ".", "M", "I", "T", ".", "e", "d", "u">> \o <<"/">>,
      <<"https://">> \o MitEdu \o <<"/">> \o XCom,
      <<"https://">> \o Docs,
      <<"https://">> \o <<"i", "n", "b", "o">> \o XCom \o <<"/", "a">>,
      <<"http://">> \o <<"a", ".", "i", "o">> \o <<"/">> \o XCom,
      <<"https://">> \o <<"a", ".", "i", "o">>,
      Jira \o MitEdu }

\* the patterns users define
UserPatterns == {MitEdu, <<"M", "I", "T">>, <<"a", ".">>}

\* the userCategories objects explored: no entry, one entry, two entries
UserCategorySets ==
    {<< >>}
    \cup {<<[category |-> c, patterns |-> <<p>>]>> : c \in {"fun", "study"}, p \in UserPatterns}
    \cup {<<[category |-> "fun", patterns |-> <<p>>], [category |-> "study", patterns |-> <<q>>]>> :
              p \in UserPatterns, q \in UserPatterns}

\* String.prototype.toLowerCase, on the letters the hostnames explored use
LowerCase(str) ==
    [k \in 1..Len(str) |->
        CASE str[k] = "M" -> "m" [] str[k] = "I" -> "i" [] str[k] = "T" -> "t"
          [] str[k] = "J" -> "j" [] OTHER -> str[k]]

\* new URL(url) throws unless the URL starts with a scheme
Parses(url) == Len(url) >= 2 /\ url[1] \in {"https://", "http://"}

\* new URL(url).hostname: what follows the scheme, up to the path
Hostname(url) ==
    LET slashes == {k \in 2..Len(url) : url[k] = "/"}
        last == IF slashes = {} THEN Len(url)
                ELSE (CHOOSE k \in slashes : \A j \in slashes : k <= j) - 1
    IN  SubSeq(url, 2, last)

\* the entries of DEFAULT_CATEGORY_PATTERNS, in their order, with those of
\* their patterns that occur in the hostnames explored
DEFAULT_CATEGORY_PATTERNS ==
    << [category |-> "productivity", patterns |-> <<Jira, Docs>>],
       [category |-> "entertainment", patterns |-> << >>],
       [category |-> "social", patterns |-> <<XCom>>],
       [category |-> "news", patterns |-> << >>],
       [category |-> "shopping", patterns |-> << >>],
       [category |-> "education", patterns |-> <<MitEdu>>],
       [category |-> "health", patterns |-> << >>],
       [category |-> "finance", patterns |-> << >>],
       [category |-> "work", patterns |-> << >>] >>

\* the first entry one of whose patterns the domain includes, in the order of
\* Object.entries; "none" when there is no such entry
FirstMatch(entries, domain) ==
    LET hits == {k \in 1..Len(entries) :
                    \E j \in 1..Len(entries[k].patterns) :
                        Includes(domain, LowerCase(entries[k].patterns[j]))}
    IN  IF hits = {} THEN "none"
        ELSE entries[CHOOSE k \in hits : \A j \in hits : k <= j].category

CategorizeUrl(url, userCategories) ==
    IF ~Parses(url)
    THEN "other"
    ELSE LET domain == LowerCase(Hostname(url))
             user == FirstMatch(userCategories, domain)
             default == FirstMatch(DEFAULT_CATEGORY_PATTERNS, domain)
         IN  IF user # "none" THEN user
             ELSE IF default # "none" THEN default
             ELSE "other"

\* a call categorizeUrl(url, userCategories)
Categorize(url, userCategories) ==
    /\ call' = [fn |-> "categorizeUrl", args |-> <<url, userCategories>>,
                result |-> CategorizeUrl(url, userCategories)]
    /\ UNCHANGED <<activeTabId, activeStart, activeUrl, activeSid, paused, isSwitching,
                   settings, recording, storage, local, standalone, now, tasks, emitted, posts>>

(* -------------------------------- clock -------------------------------- *)

Tick ==
    /\ now < MaxTime
    /\ now' = now + 1
    /\ UNCHANGED <<activeTabId, activeStart, activeUrl, activeSid, paused,
                   isSwitching, settings, recording, aux, tasks, emitted, posts>>

(* ----------------------------- specification --------------------------- *)

Next ==
    \/ Tick
    \/ \E i \in Tasks, tabId \in TabIds : OnActivated(i, tabId)
    \/ \E i \in Tasks, url \in Urls, sync \in BOOLEAN : TabsGetReturn(i, url, sync)
    \/ \E i \in Tasks : TabsGetFails(i)
    \/ \E i \in Tasks, sync \in BOOLEAN : OnFocusLost(i, sync)
    \/ \E i \in Tasks : OnFocusGained(i)
    \/ \E i \in Tasks, tab \in TabValues \cup {NoTab}, sync \in BOOLEAN : FocusQueryReturn(i, tab, sync)
    \/ \E i \in Tasks : FocusQueryFails(i)
    \/ \E i \in Tasks, tab \in TabValues, complete \in BOOLEAN, sync \in BOOLEAN :
          OnUpdated(i, tab, complete, sync)
    \/ \E i \in Tasks, sync \in BOOLEAN : OnPause(i, sync)
    \/ \E i \in Tasks, o \in ProbeCallbacks : PauseProbeReturn(i, o)
    \/ \E i \in Tasks : OnResume(i)
    \/ \E i \in Tasks, tab \in TabValues \cup {NoTab}, sync \in BOOLEAN : ResumeQueryReturn(i, tab, sync)
    \/ \E i \in Tasks : ResumeQueryFails(i)
    \/ \E i \in Tasks, o \in ProbeCallbacks : HsProbeReturn(i, o)
    \/ \E i \in Tasks, ok \in BOOLEAN : SettingsReturn(i, ok)

Spec == Init /\ [][Next]_vars

\* tab activations only, every handler keeping its history
NextActivations ==
    \/ Tick
    \/ \E i \in Tasks, tabId \in TabIds : OnActivated(i, tabId)
    \/ \E i \in Tasks, url \in Urls, sync \in BOOLEAN : TabsGetReturn(i, url, sync)
    \/ \E i \in Tasks : TabsGetFails(i)
    \/ \E i \in Tasks, o \in ProbeCallbacks : HsProbeReturn(i, o)
    \/ \E i \in Tasks, ok \in BOOLEAN : SettingsReturn(i, ok)

SpecActivations == InitWith(TRUE) /\ [][NextActivations]_vars

\* tab activations and focus changes, every handler keeping its history
NextFocus ==
    \/ Tick
    \/ \E i \in Tasks, tabId \in TabIds : OnActivated(i, tabId)
    \/ \E i \in Tasks, url \in Urls, sync \in BOOLEAN : TabsGetReturn(i, url, sync)
    \/ \E i \in Tasks : TabsGetFails(i)
    \/ \E i \in Tasks, sync \in BOOLEAN : OnFocusLost(i, sync)
    \/ \E i \in Tasks : OnFocusGained(i)
    \/ \E i \in Tasks, tab \in TabValues \cup {NoTab}, sync \in BOOLEAN : FocusQueryReturn(i, tab, sync)
    \/ \E i \in Tasks : FocusQueryFails(i)
    \/ \E i \in Tasks, o \in ProbeCallbacks : HsProbeReturn(i, o)
    \/ \E i \in Tasks, ok \in BOOLEAN : SettingsReturn(i, ok)

SpecFocus == InitWith(TRUE) /\ [][NextFocus]_vars

\* the messages pushed by pages and the Remote Sink, with the tab activations
\* and pauses that open and close sessions
MaxPosts == 2

NextMessages ==
    \/ Tick
    \/ \E i \in Tasks, tabId \in TabIds : OnActivated(i, tabId)
    \/ \E i \in Tasks, url \in Urls, sync \in BOOLEAN : TabsGetReturn(i, url, sync)
    \/ \E i \in Tasks, o \in ProbeCallbacks : HsProbeReturn(i, o)
    \/ \E i \in Tasks, ok \in BOOLEAN : SettingsReturn(i, ok)
    \/ \E i \in Tasks, sync \in BOOLEAN : OnPause(i, sync)
    \/ \E i \in Tasks, o \in ProbeCallbacks : PauseProbeReturn(i, o)
    \/ \E i \in Tasks, sender \in Senders, data \in Engagements \cup {NoEng} :
          OnEngagement(i, sender, data)
    \/ \E i \in Tasks, sender \in Senders, text \in Texts \cup {NoText} :
          OnPageHtml(i, sender, text)
    \/ \E k \in 1..MaxPosts, ok \in BOOLEAN : FetchSettles(k, ok)

SpecMessages == Init /\ [][NextMessages]_vars

\* tab activations and pauses, with what the platform guarantees: tabs.get and
\* storage.get settle. Nothing makes the page answer the probe:
\* fetchPageText resolves only from the callbacks of executeScript and
\* sendMessage, and sets no timer.
NextProbe ==
    \/ Tick
    \/ \E i \in Tasks, tabId \in TabIds : OnActivated(i, tabId)
    \/ \E i \in Tasks, url \in Urls, sync \in BOOLEAN : TabsGetReturn(i, url, sync)
    \/ \E i \in Tasks, o \in ProbeCallbacks : HsProbeReturn(i, o)
    \/ \E i \in Tasks, ok \in BOOLEAN : SettingsReturn(i, ok)
    \/ \E i \in Tasks, sync \in BOOLEAN : OnPause(i, sync)
    \/ \E i \in Tasks, o \in ProbeCallbacks : PauseProbeReturn(i, o)

SpecProbe ==
    /\ Init
    /\ [][NextProbe]_vars
    /\ WF_vars(\E i \in Tasks, url \in Urls, sync \in BOOLEAN : TabsGetReturn(i, url, sync))
    /\ WF_vars(\E i \in Tasks, ok \in BOOLEAN : SettingsReturn(i, ok))

\* closes that overlap the opening of the next session: tab activations,
\* pauses and resumes, with a page that does answer the probe
NextClose ==
    \/ Tick
    \/ \E i \in Tasks, tabId \in TabIds : OnActivated(i, tabId)
    \/ \E i \in Tasks, url \in Urls, sync \in BOOLEAN : TabsGetReturn(i, url, sync)
    \/ \E i \in Tasks : TabsGetFails(i)
    \/ \E i \in Tasks, o \in ProbeCallbacks : HsProbeReturn(i, o)
    \/ \E i \in Tasks, ok \in BOOLEAN : SettingsReturn(i, ok)
    \/ \E i \in Tasks, sync \in BOOLEAN : OnPause(i, sync)
    \/ \E i \in Tasks, o \in ProbeCallbacks : PauseProbeReturn(i, o)
    \/ \E i \in Tasks : OnResume(i)
    \/ \E i \in Tasks, tab \in TabValues \cup {NoTab}, sync \in BOOLEAN : ResumeQueryReturn(i, tab, sync)

SpecClose ==
    /\ Init
    /\ [][NextClose]_vars
    /\ WF_vars(\E i \in Tasks, o \in ProbeCallbacks : HsProbeReturn(i, o))
    /\ WF_vars(\E i \in Tasks, o \in ProbeCallbacks : PauseProbeReturn(i, o))

\* the periodic flush, with the tab activations and pauses that open and
\* close sessions
NextFlush ==
    \/ Tick
    \/ \E i \in Tasks, tabId \in TabIds : OnActivated(i, tabId)
    \/ \E i \in Tasks, url \in Urls, sync \in BOOLEAN : TabsGetReturn(i, url, sync)
    \/ \E i \in Tasks, o \in ProbeCallbacks : HsProbeReturn(i, o)
    \/ \E i \in Tasks, ok \in BOOLEAN : SettingsReturn(i, ok)
    \/ \E i \in Tasks, sync \in BOOLEAN : OnPause(i, sync)
    \/ \E i \in Tasks, o \in ProbeCallbacks : PauseProbeReturn(i, o)
    \/ \E i \in Tasks, sync \in BOOLEAN : OnFlush(i, sync)
    \/ \E i \in Tasks, o \in FlushCallbacks : FlushReturn(i, o)

SpecFlush == Init /\ [][NextFlush]_vars

\* tab activations that find a session open: the one an earlier handler, which
\* has returned, opened on tab 1 for UrlA at time 1
EarlierSid == MaxTasks + 1

InitOpen ==
    /\ recording = FALSE
    /\ storage = NoStorage
    /\ call = NoCall
    /\ local = NoLocal
    /\ standalone = NoStandalone
    /\ activeTabId = 1
    /\ activeStart = 1
    /\ activeUrl = UrlA
    /\ activeSid = EarlierSid
    /\ paused = FALSE
    /\ isSwitching = FALSE
    /\ settings = [excludeList |-> ExcludeList]
    /\ now = 1
    /\ tasks = [i \in Tasks |-> IdleTask]
    /\ emitted = <<Event("session_start", UrlA, 1, Null, NoEng, EarlierSid)>>
    /\ posts = << >>

NextOpen ==
    \/ Tick
    \/ \E i \in Tasks, tabId \in TabIds : OnActivated(i, tabId)
    \/ \E i \in Tasks, url \in Urls, sync \in BOOLEAN : TabsGetReturn(i, url, sync)
    \/ \E i \in Tasks : TabsGetFails(i)
    \/ \E i \in Tasks, o \in ProbeCallbacks : HsProbeReturn(i, o)
    \/ \E i \in Tasks, ok \in BOOLEAN : SettingsReturn(i, ok)

SpecOpen == InitOpen /\ [][NextOpen]_vars

\* closes, with every kind of answer of the page: with and without text, and
\* with counters missing, all zero, or each one nonzero
CloseCallbacks ==
    {[kind |-> k, text |-> NoText, engagement |-> NoEng] : k \in {"inject_error", "message_error"}}
    \cup {[kind |-> "response", text |-> t, engagement |-> e] :
              t \in Texts \cup {NoText},
              e \in {NoEng, <<0, 0, 0>>, <<1, 0, 0>>, <<0, 1, 0>>, <<0, 0, 1>>}}

NextCloseout ==
    \/ Tick
    \/ \E i \in Tasks, tabId \in TabIds : OnActivated(i, tabId)
    \/ \E i \in Tasks, url \in Urls, sync \in BOOLEAN : TabsGetReturn(i, url, sync)
    \/ \E i \in Tasks, o \in CloseCallbacks : HsProbeReturn(i, o)
    \/ \E i \in Tasks, ok \in BOOLEAN : SettingsReturn(i, ok)
    \/ \E i \in Tasks, sync \in BOOLEAN : OnPause(i, sync)
    \/ \E i \in Tasks, o \in CloseCallbacks : PauseProbeReturn(i, o)

SpecCloseout == Init /\ [][NextCloseout]_vars

\* the install handler, run on install and on updates, over what the storage
\* can hold by then
InitInstall ==
    /\ recording = FALSE /\ storage = NoStorage /\ call = NoCall
    /\ standalone = NoStandalone
    /\ \E ev \in StoredEvents, st \in StoredSettings :
          local = [NoLocal EXCEPT !.events = ev, !.settings = st]
    /\ activeTabId = Null /\ activeStart = Null /\ activeUrl = NoUrl /\ activeSid = Null
    /\ paused = FALSE /\ isSwitching = FALSE
    /\ settings = [excludeList |-> ExcludeList]
    /\ now = 1
    /\ tasks = [i \in Tasks |-> IdleTask]
    /\ emitted = << >> /\ posts = << >>

NextInstall ==
    \/ OnInstalled
    \/ InstalledCallback

SpecInstall == InitInstall /\ [][NextInstall]_vars

\* the standalone background script
NextStandalone ==
    \/ SaTick
    \/ \E i \in Tasks, url \in SaUrls \cup {NoUrl}, complete \in BOOLEAN :
          SaOnUpdated(i, url, complete)
    \/ \E i \in Tasks : SaSaveGetReturn(i)
    \/ \E i \in Tasks : SaSaveApiReturn(i)
    \/ \E i \in Tasks : SaSaveStoredReturn(i)
    \/ \E i \in Tasks : SaVisitGetReturn(i)
    \/ \E i \in Tasks : SaVisitStoredReturn(i)
    \/ \E i \in Tasks : SaPause(i)
    \/ \E i \in Tasks : SaResume(i)
    \/ \E i \in Tasks : SaFlagStored(i)
    \/ \E i \in Tasks : SaGetTodayStats(i)
    \/ \E i \in Tasks, ok \in BOOLEAN : SaStatsReturn(i, ok)

SpecStandalone == Init /\ [][NextStandalone]_vars

\* calls of categorizeUrl
NextCategorize ==
    \E url \in CatUrls, userCategories \in UserCategorySets : Categorize(url, userCategories)

SpecCategorize == Init /\ [][NextCategorize]_vars

\* the development-mode tracker variant
NextDev ==
    \/ Tick
    \/ \E i \in Tasks, tabId \in TabIds : DevOnActivated(i, tabId)
    \/ \E i \in Tasks, url \in Urls \cup {NoUrl} : DevTabsGetReturn(i, url)
    \/ \E i \in Tasks, ok \in BOOLEAN : DevSettingsReturn(i, ok)
    \/ \E i \in Tasks, text \in Texts \cup {NoText} : DevProbeReturn(i, text)
    \/ \E i \in Tasks : DevOnFocusLost(i)
    \/ \E i \in Tasks : DevBlurFires(i)
    \/ \E i \in Tasks : DevOnFocusGained(i)
    \/ \E i \in Tasks, tab \in TabValues \cup {NoTab} : DevQueryReturn(i, tab)
    \/ \E i \in Tasks, tab \in TabValues, urlChanged \in BOOLEAN : DevOnUpdated(i, tab, urlChanged)
    \/ \E i \in Tasks : DevOnPause(i)
    \/ \E i \in Tasks : DevOnResume(i)
    \/ \E i \in Tasks, sender \in Senders, data \in Engagements \cup {NoEng} :
          DevOnEngagement(i, sender, data)
    \/ \E i \in Tasks, sender \in Senders, text \in Texts \cup {NoText} :
          DevOnPageHtml(i, sender, text)

SpecDev == Init /\ [][NextDev]_vars

\* the Event Log Store, with StoreTasks activations of one tab, which shows
\* UrlA or UrlB, to pass events to it
StoreTasks == 2

NextStore ==
    \/ LateTick
    \/ \E i \in 1..StoreTasks : OnActivated(i, 1)
    \/ \E i \in 1..StoreTasks, url \in {UrlA, UrlB} : TabsGetReturn(i, url, FALSE)
    \/ \E i \in 1..StoreTasks, o \in ProbeCallbacks : HsProbeReturn(i, o)
    \/ \E i \in 1..StoreTasks : SettingsReturn(i, TRUE)
    \/ StorageServes
    \/ PersistCallback

SpecStore == Init /\ [][NextStore]_vars


(* ------------------------------- claims -------------------------------- *)

IsStart(e) == e.type = "session_start"
IsEnd(e) == e.type = "session_end"

EndEvent(url, s, t, sid) == Event("session_end", url, t, t - s, NoEng, sid)
StartEvent(url, t, sid) == Event("session_start", url, t, Null, NoEng, sid)

NumStarts(log) == Len(SelectSeq(log, IsStart))
NumEnds(log) == Len(SelectSeq(log, IsEnd))
EndsOf(log, sid) == Len(SelectSeq(log, LAMBDA e : IsEnd(e) /\ e.sid = sid))
StartsOf(log, sid) == Len(SelectSeq(log, LAMBDA e : IsStart(e) /\ e.sid = sid))

IsPrefix(a, b) == Len(a) <= Len(b) /\ SubSeq(b, 1, Len(a)) = a
Last(log) == log[Len(log)]

Candidates == TabValues \cup {NoTab}

\* the handlers inside handleSwitch: past the busy check and not yet returned
InHandleSwitch == {i \in Tasks : tasks[i].pc \in {"hs_probe", "hs_settings"}}

\* the step in which the handler i calls handleSwitch(tab)
CallsHandleSwitch(i, tab, sync) ==
    \/ tab # NoTab /\ tasks[i].tab.id = tab.id /\ TabsGetReturn(i, tab.url, sync)
    \/ FocusQueryReturn(i, tab, sync)
    \/ tab # NoTab /\ ResumeQueryReturn(i, tab, sync)
    \/ tab = NoTab /\ ~paused /\ OnFocusLost(i, sync)
    \/ tab # NoTab /\ ~paused /\ tab.id = activeTabId /\ OnUpdated(i, tab, TRUE, sync)

\* ... and handleSwitch does not drop the call
Transition(i, tab, sync) == ~isSwitching /\ CallsHandleSwitch(i, tab, sync)

\* u contains e as a substring: u = pre \o e \o post
Contains(u, e) ==
    \E a \in 0..Len(u), b \in 0..Len(u) : a <= b /\ SubSeq(u, a + 1, b) = e

OnExcludeList(u) ==
    \E k \in 1..Len(settings.excludeList) : Contains(u, settings.excludeList[k])

\* the step in which handleSwitch, its settings read answered, opens a session
Opens(i) == SettingsReturn(i, TRUE) /\ ~OnExcludeList(tasks[i].tab.url)

\* C1: at most one session is open at any instant: the event log never holds
\* two session_start events without a session_end between them.
C1_OneOpenSession ==
    \A a, b \in 1..Len(emitted) :
        (a < b /\ IsStart(emitted[a]) /\ IsStart(emitted[b]))
            => \E k \in a..b : IsEnd(emitted[k])

\* C2: handleSwitch is serialized by the switching flag: never are two
\* invocations both past the busy check and not yet finished.
C2_Serialized == Cardinality(InHandleSwitch) <= 1

\* C3: across a switch from session A to session B, B.startedAt equals A's
\* end time: no time between the close of A and the open of B is unattributed.
C3_NoGapAcrossSwitch ==
    [][\A i \in Tasks :
          (Opens(i) /\ tasks[i].snap.sid # Null) => activeStart' = tasks[i].snap.end]_vars

\* C4: while paused stays true no session_start is emitted and, once cleared,
\* the session fields stay null.
C4_NoOpenWhilePaused ==
    [][(paused /\ paused') =>
          /\ NumStarts(emitted') = NumStarts(emitted)
          /\ (~HasSession => ~HasSession')]_vars

(* ------------------------- C5: pause mid-session ----------------------- *)

\* the step in which the message handler of a new task i receives `pause`
Pauses(i) == \E sync \in BOOLEAN : OnPause(i, sync)

\* C5: a pause arriving at time t while a session opened at time s is open sets
\* paused, appends exactly one session_end with duration t - s for that
\* session, and replies {paused: true} only after the close has completed.
C5_PauseClosesSession ==
    [][\A i \in Tasks :
          \* the open session is the one its session_start announced, at time s
          /\ HasSession =>
                \E k \in 1..Len(emitted) :
                    emitted[k] = StartEvent(activeUrl, activeStart, activeSid)
          \* the pause arrives at t = now: either the close awaits the probe ...
          /\ (Pauses(i) /\ HasSession) =>
                /\ paused'
                /\ \/ /\ tasks'[i].pc = "pause_probe"
                      /\ tasks'[i].reply = "none"
                      /\ tasks'[i].snap.sid = activeSid
                      /\ tasks'[i].snap.url = activeUrl
                      /\ tasks'[i].snap.end - tasks'[i].snap.start = now - activeStart
                      /\ emitted' = emitted
                   \* ... or it completes at once
                   \/ /\ tasks'[i].pc = "done"
                      /\ tasks'[i].reply = "paused_true"
                      /\ emitted' = Append(emitted, EndEvent(activeUrl, activeStart, now, activeSid))
                      /\ EndsOf(emitted', activeSid) = 1
          \* while the close is in flight nothing has been replied, and its
          \* completion appends the one session_end and then replies
          /\ tasks[i].pc = "pause_probe" =>
                /\ tasks[i].reply = "none"
                /\ EndsOf(emitted, tasks[i].snap.sid) = 0
                /\ tasks'[i].pc # "pause_probe" =>
                      /\ tasks'[i].pc = "done"
                      /\ tasks'[i].reply = "paused_true"
                      /\ IsPrefix(emitted, emitted')
                      /\ Last(emitted').type = "session_end"
                      /\ Last(emitted').sid = tasks[i].snap.sid
                      /\ Last(emitted').url = tasks[i].snap.url
                      /\ Last(emitted').duration = tasks[i].snap.end - tasks[i].snap.start
                      /\ EndsOf(emitted', tasks[i].snap.sid) = 1]_vars

\* the first handler opened a session; the second, a pause, closed it after one
\* unit of time and has replied
C5_Witness ==
    /\ tasks[2].reply = "paused_true"
    /\ tasks[3].pc = "idle"
    /\ paused
    /\ Len(emitted) = 2
    /\ IsStart(emitted[1])
    /\ IsEnd(emitted[2]) /\ emitted[2].sid = 1 /\ emitted[2].duration = 1

(* --------------------------- C6: simple switch ------------------------- *)

Rapid(p, x, y) ==
    /\ x < y /\ p # x /\ p # y
    /\ \A j \in Tasks : tasks[j].pc = (IF j \in {p, x, y} THEN "done" ELSE "idle")
    /\ tasks[p].result = "opened"
    /\ tasks[x].kind = "activated" /\ tasks[x].closed = p
    /\ tasks[y].kind = "activated" /\ p \in tasks[y].during
    /\ tasks[y].result \in {"dropped", "opened"}

\* C7 as stated: after a rapid double-switch (X's candidate being eligible)
\* the one open session is Y's, and exactly one session_end has been emitted
\* for P.
C7_FinalSessionIsY ==
    \A p, x, y \in Tasks :
        (Rapid(p, x, y) /\ tasks[x].result = "opened")
            => (HasSession /\ activeSid = y /\ EndsOf(emitted, p) = 1)

\* C7 as the code has it: exactly one session_end is emitted for P; when Y's
\* handleSwitch call finds X's transition still in progress Y is dropped, and
\* the final session is the one X's transition opened (none if X was not
\* eligible); Y's session is the final one only when Y was not dropped.
C7_DropOnBusy ==
    \A p, x, y \in Tasks :
        Rapid(p, x, y) =>
            /\ EndsOf(emitted, p) = 1
            /\ tasks[y].result = "dropped" =>
                  /\ StartsOf(emitted, y) = 0
                  /\ activeSid # y
                  /\ tasks[x].result = "opened" => (HasSession /\ activeSid = x)
                  /\ tasks[x].result # "opened" => ~HasSession
            /\ tasks[y].result = "opened" => (HasSession /\ activeSid = y)

\* Y was dropped and the session X's transition opened is the final one
C7_Witness ==
    \E p, x, y \in Tasks :
        /\ Rapid(p, x, y)
        /\ tasks[y].result = "dropped"
        /\ tasks[x].result = "opened"
        /\ HasSession /\ activeSid = x

(* ---------------------- C8: probe failure at close --------------------- *)

ProbeFailures == {o \in ProbeCallbacks : o.kind # "response"}

\* the step in which task i closes the open session without awaiting the
\* probe: the probe call threw
ClosesAtOnce(i) ==
    /\ HasSession
    /\ \/ OnPause(i, TRUE)
       \/ \E tab \in Candidates : Transition(i, tab, TRUE)

\* C8: when the probe fails during a close (injection error, message error or
\* exception) the close still appends session_end with duration end - start,
\* sends only the session to the Remote Sink (no html), appends no engagement
\* event, and the handler goes on as after any close.
C8_ProbeFailure ==
    [][\A i \in Tasks :
          /\ \A o \in ProbeFailures :
                (HsProbeReturn(i, o) \/ PauseProbeReturn(i, o)) =>
                    LET sn == tasks[i].snap
                    IN  /\ emitted' = Append(emitted, EndEvent(sn.url, sn.start, sn.end, sn.sid))
                        /\ posts' = Append(posts, SessionPost(sn.url, sn.start, sn.end))
                        /\ tasks'[i].pc \in {"hs_settings", "done"}
          /\ ClosesAtOnce(i) =>
                /\ emitted' = Append(emitted, EndEvent(activeUrl, activeStart, now, activeSid))
                /\ posts' = Append(posts, SessionPost(activeUrl, activeStart, now))
                /\ tasks'[i].pc \in {"hs_settings", "done"}]_vars

\* a close has completed with nothing but its session_end and its session
\* request, for a session that lasted one unit of time
C8_Witness ==
    /\ Len(emitted) = 2 /\ Len(posts) = 1
    /\ IsStart(emitted[1]) /\ IsEnd(emitted[2])
    /\ emitted[2].duration = 1
    /\ posts[1].api = "session" /\ posts[1].duration = 1

(* ----------------------- C9: close with no session --------------------- *)

\* C9: stopActiveTimer with no session open changes no tracker state, appends
\* no event and contacts neither the probe nor the Remote Sink, so a second
\* close in a row does nothing.
C9_CloseIsNoOp ==
    [][\A i \in Tasks :
          \* a close leaves no session open, so the next one finds none
          /\ Pauses(i) => ~HasSession'
          \* the close of a pause that finds no session
          /\ (Pauses(i) /\ ~HasSession) =>
                /\ Active' = Active
                /\ isSwitching' = isSwitching
                /\ emitted' = emitted
                /\ posts' = posts
                /\ tasks'[i].pc = "done"
                /\ tasks'[i].reply = "paused_true"
          \* the close of a transition that finds no session
          /\ \A tab \in Candidates, sync \in BOOLEAN :
                (Transition(i, tab, sync) /\ ~HasSession) =>
                    /\ Active' = Active
                    /\ emitted' = emitted
                    /\ posts' = posts
                    /\ tasks'[i].pc \in {"hs_settings", "done"}
                    /\ tasks'[i].snap = NoSnap]_vars

\* after the first handler opened a session two pauses came in a row: both have
\* replied and one session_end has been appended
C9_Witness ==
    /\ tasks[1].pc = "done"
    /\ tasks[2].reply = "paused_true"
    /\ tasks[3].reply = "paused_true"
    /\ NumStarts(emitted) = 1 /\ NumEnds(emitted) = 1
    /\ ~HasSession

(* ------------------------- C10: excluded URLs -------------------------- *)

\* C10: a candidate whose URL contains an exclude-list entry is never opened,
\* and handleSwitch leaves the tracker with no open session.
C10_ExcludedNeverOpens ==
    [][\A i \in Tasks, ok \in BOOLEAN :
          (SettingsReturn(i, ok) /\ OnExcludeList(tasks[i].tab.url))
            => /\ NumStarts(emitted') = NumStarts(emitted)
               /\ ~HasSession']_vars

\* the part of C10 that is about the candidate alone: the invocation changes
\* neither the session fields nor the event log
C10_ExcludedNotOpened ==
    [][\A i \in Tasks, ok \in BOOLEAN :
          (SettingsReturn(i, ok) /\ OnExcludeList(tasks[i].tab.url))
            => /\ emitted' = emitted
               /\ Active' = Active]_vars

(* ------------------------------ C11: resume ---------------------------- *)

\* a candidate handleSwitch opens a session for, the settings being readable
Eligible(tab) ==
    /\ ~InvalidTab(tab)
    /\ ~IsPrivileged(tab.url)
    /\ ~IsExcluded(settings.excludeList, tab.url)

\* the resume handler i sends its reply in this step
ResumeReplies(i) == tasks[i].kind = "resume" /\ tasks'[i].reply = "paused_false"

\* the resume handler i is inside handleSwitch
ResumeInSwitch(i) ==
    tasks[i].kind = "resume" /\ tasks[i].pc \in {"hs_probe", "hs_settings"}

\* C11 as stated: resume clears paused; when the active tab is eligible a
\* session is open for it by the time {paused: false} is sent; with no active
\* tab no session is opened and the reply is {paused: false} all the same.
C11_ResumeOpensSession ==
    [][\A i \in Tasks :
          /\ OnResume(i) => ~paused'
          /\ \A tab \in Candidates, sync \in BOOLEAN :
                ResumeQueryReturn(i, tab, sync) =>
                    /\ (tab = NoTab) =>
                          /\ tasks'[i].reply = "paused_false"
                          /\ Active' = Active
                          /\ emitted' = emitted
                    /\ (Eligible(tab) /\ tasks'[i].pc = "done") =>
                          /\ tasks'[i].reply = "paused_false"
                          /\ HasSession' /\ activeTabId' = tab.id /\ activeUrl' = tab.url
          /\ (ResumeInSwitch(i) /\ tasks'[i].pc = "done" /\ Eligible(tasks[i].tab)) =>
                /\ tasks'[i].reply = "paused_false"
                /\ HasSession'
                /\ activeTabId' = tasks[i].tab.id
                /\ activeUrl' = tasks[i].tab.url]_vars

\* C11 as the code has it: resume clears paused and attempts the transition.
\* With no active tab nothing is opened; a transition dropped because another
\* one is in progress opens nothing; a transition that is entered opens the
\* session for the eligible tab unless the settings read fails; in each case
\* {paused: false} is sent when the handler returns, and not before.
C11_ResumeAttemptsOpen ==
    [][\A i \in Tasks :
          /\ OnResume(i) => (~paused' /\ tasks'[i].reply = "none")
          /\ \A tab \in Candidates, sync \in BOOLEAN :
                ResumeQueryReturn(i, tab, sync) =>
                    /\ (tab = NoTab \/ isSwitching) =>
                          /\ tasks'[i].pc = "done"
                          /\ tasks'[i].reply = "paused_false"
                          /\ Active' = Active
                          /\ emitted' = emitted
                    /\ (tab # NoTab /\ ~isSwitching) =>
                          /\ ~HasSession'
                          /\ NumStarts(emitted') = NumStarts(emitted)
                          /\ IF tasks'[i].pc = "done"
                             THEN /\ InvalidTab(tab) \/ IsPrivileged(tab.url)
                                  /\ tasks'[i].reply = "paused_false"
                             ELSE /\ tasks'[i].pc \in {"hs_probe", "hs_settings"}
                                  /\ tasks'[i].reply = "none"
                                  /\ tasks'[i].tab = tab
          /\ ResumeInSwitch(i) =>
                /\ tasks[i].reply = "none"
                /\ tasks'[i].pc = "done" =>
                      /\ tasks'[i].reply = "paused_false"
                      /\ (SettingsReturn(i, TRUE) /\ Eligible(tasks[i].tab)) =>
                            /\ HasSession'
                            /\ activeTabId' = tasks[i].tab.id
                            /\ activeUrl' = tasks[i].tab.url
                            /\ activeSid' = i
                      /\ ~(SettingsReturn(i, TRUE) /\ Eligible(tasks[i].tab)) =>
                            /\ Active' = Active
                            /\ NumStarts(emitted') = NumStarts(emitted)]_vars

\* a pause and then a resume: the resume has replied {paused: false} with the
\* session it opened for the active tab open
C11_Witness ==
    /\ tasks[1].reply = "paused_true"
    /\ tasks[2].reply = "paused_false"
    /\ ~paused
    /\ HasSession /\ activeSid = 2
    /\ Last(emitted) = StartEvent(activeUrl, activeStart, 2)

(* ------------------------ C12: engagement message ---------------------- *)

\* C12: an engagement message is appended to the event log if and only if the
\* sender tab's URL is the URL of the open session, never when no session is
\* open; the reply is {ok: true} either way, and activeTabId, activeUrl,
\* activeStart, paused and isSwitching do not change.
C12_EngagementFromActiveUrl ==
    [][\A i \in Tasks, sender \in Senders, data \in Engagements \cup {NoEng} :
          OnEngagement(i, sender, data) =>
              /\ IF HasSession /\ sender.url = activeUrl
                 THEN emitted' = Append(emitted, Event("engagement", activeUrl, now, Null,
                                                        data, activeSid))
                 ELSE emitted' = emitted
              /\ tasks'[i].reply = "ok_true"
              /\ Active' = Active
              /\ paused' = paused
              /\ isSwitching' = isSwitching
              /\ posts' = posts]_vars

\* the second handler was an engagement message from the open session's URL:
\* its event is the last of the log, after the session_start
C12_Witness ==
    /\ tasks[2].reply = "ok_true"
    /\ tasks[3].pc = "idle"
    /\ HasSession
    /\ Len(emitted) = 2
    /\ IsStart(emitted[1])
    /\ emitted[2].type = "engagement" /\ emitted[2].url = activeUrl

(* ------------------------- C13: page_html message ---------------------- *)

\* C13: a page_html message is forwarded to the Remote Sink only when it comes
\* from the tab of the open session: never from another tab, never while no
\* session is open.
C13_HtmlOnlyFromSessionTab ==
    [][\A i \in Tasks, sender \in Senders, text \in Texts \cup {NoText} :
          (OnPageHtml(i, sender, text) /\ posts' # posts)
              => (HasSession /\ sender.id = activeTabId)]_vars

(* --------------------- C14: best-effort Remote Sink -------------------- *)

SessionPosts(ps) == SelectSeq(ps, LAMBDA q : q.api = "session")

\* the requests as they were issued, whatever became of them
Issued(ps) == [k \in 1..Len(ps) |-> [ps[k] EXCEPT !.status = "pending"]]

\* C14: every close issues exactly one POST /session, with the closed
\* session's url, startTime, endTime and duration = endTime - startTime, in the
\* step that appends its session_end; a fetch that fails is not issued again
\* and changes nothing but its own outcome; whatever the outcomes, a close that
\* awaits the probe still appends its session_end and handleSwitch still
\* releases isSwitching.
C14_BestEffortSink ==
    [][/\ LET newPosts == SubSeq(SessionPosts(posts'), Len(SessionPosts(posts)) + 1,
                                 Len(SessionPosts(posts')))
              newEnds == SubSeq(SelectSeq(emitted', IsEnd), NumEnds(emitted) + 1,
                                NumEnds(emitted'))
          IN  /\ Len(newPosts) <= 1
              /\ Len(newPosts) = Len(newEnds)
              /\ Len(newPosts) = 1 =>
                    /\ newPosts[1].url = newEnds[1].url
                    /\ newPosts[1].endTime = newEnds[1].ts
                    /\ newPosts[1].duration = newEnds[1].duration
                    /\ newPosts[1].duration = newPosts[1].endTime - newPosts[1].startTime
                    /\ newPosts[1].status = "pending"
       /\ \A k \in 1..MaxPosts, ok \in BOOLEAN :
             FetchSettles(k, ok) =>
                 /\ Issued(posts') = Issued(posts)
                 /\ posts'[k].status # "pending"
                 /\ Active' = Active
                 /\ paused' = paused
                 /\ isSwitching' = isSwitching
                 /\ emitted' = emitted
                 /\ tasks' = tasks
       /\ \A i \in Tasks :
             /\ tasks[i].pc = "hs_probe" =>
                   /\ ENABLED HsProbeReturn(i, ProbeThrows)
                   /\ \A o \in ProbeCallbacks :
                         HsProbeReturn(i, o) => EndsOf(emitted', tasks[i].snap.sid) = 1
             /\ tasks[i].pc = "pause_probe" =>
                   /\ ENABLED PauseProbeReturn(i, ProbeThrows)
                   /\ \A o \in ProbeCallbacks :
                         PauseProbeReturn(i, o) => EndsOf(emitted', tasks[i].snap.sid) = 1
             /\ tasks[i].pc = "hs_settings" =>
                   /\ ENABLED SettingsReturn(i, TRUE)
                   /\ \A ok \in BOOLEAN : SettingsReturn(i, ok) => ~isSwitching']_vars

\* the POST /session of the first close failed, and the transition that made
\* the close has gone on to open the next session and release the flag
C14_Witness ==
    /\ Len(posts) = 1
    /\ posts[1].api = "session" /\ posts[1].status = "failed"
    /\ Len(emitted) = 3
    /\ IsEnd(emitted[2]) /\ emitted[2].duration = posts[1].duration
    /\ IsStart(emitted[3])
    /\ HasSession /\ activeSid = 2
    /\ ~isSwitching

(* ------------------------- C15: retention pruning ---------------------- *)

\* the step in which chrome.storage.local carries out a set: the persistEvent
\* that issued it completes
SetCompletes ==
    /\ StorageServes
    /\ storage.sets # << >>
    /\ storage'.sets = Tail(storage.sets)

\* C15: when a persistEvent completes, the stored list is the previously stored
\* events that are within the retention horizon, in their order, followed by
\* the new event; no other stored event is older than the horizon.
C15_PrunedThenAppended ==
    [][SetCompletes =>
          LET set == Head(storage.sets)
              new == Last(set.events)
          IN  /\ storage'.events = Append(Pruned(storage.events, set.cutoff), new)
              /\ \A k \in 1..(Len(storage'.events) - 1) :
                    storage'.events[k].ts >= set.cutoff]_vars

\* what holds of the list persistEvent read, rather than of the list stored
\* when its set is carried out
C15_PrunedSnapshot ==
    [][PersistCallback =>
          LET r == Head(storage.replies)
              set == Last(storage'.sets)
          IN  /\ set.events = Append(Pruned(r.res, now - Retention), r.event)
              /\ \A k \in 1..(Len(set.events) - 1) : set.events[k].ts >= now - Retention]_vars

(* ------------------------ C16: development mode ------------------------ *)

\* the step in which the variant's handleSwitch opens a session
DevOpens(i) ==
    /\ DevSettingsReturn(i, TRUE)
    /\ ~IsExcluded(settings.excludeList, tasks[i].tab.url)

\* C16: with DEV_MODE set the variant never issues a request to the Remote
\* Sink, whatever the events, while every open still persists its
\* session_start and every close that completes its session_end.
C16_DevModeNoRequests ==
    [][/\ posts = << >> /\ posts' = << >>
       /\ \A i \in Tasks :
             /\ DevOpens(i) =>
                   emitted' = Append(emitted, StartEvent(tasks[i].tab.url, now, i))
             /\ \A text \in Texts \cup {NoText} :
                   DevProbeReturn(i, text) =>
                       /\ Len(emitted') = Len(emitted) + 1
                       /\ IsEnd(Last(emitted'))
                       /\ Last(emitted').url = tasks[i].snap.url
                       /\ Last(emitted').ts = tasks[i].snap.end]_vars

\* a session was opened, a pause closed it and a page_html message came:
\* both events are persisted, and no request was issued
C16_Witness ==
    /\ \A i \in Tasks : tasks[i].pc = "done"
    /\ tasks[2].reply = "paused_true"
    /\ tasks[3].reply = "ok_true"
    /\ Len(emitted) = 2
    /\ IsStart(emitted[1]) /\ IsEnd(emitted[2])
    /\ emitted[2].url = emitted[1].url
    /\ posts = << >>

(* --------------------------- C17: categorizeUrl ------------------------ *)

\* the patterns of the entries that the domain includes, lower-cased, each
\* with its category
Matches(entries, domain) ==
    UNION {{[category |-> entries[k].category, pattern |-> LowerCase(entries[k].patterns[j])] :
               j \in {j \in 1..Len(entries[k].patterns) :
                         Includes(domain, LowerCase(entries[k].patterns[j]))}} :
           k \in 1..Len(entries)}

\* result is the category of a longest pattern among the matches ms
LongestIn(ms, result) ==
    \E m \in ms : m.category = result /\ \A n \in ms : Len(n.pattern) <= Len(m.pattern)

\* C17: categorizeUrl returns the category of the longest pattern that is a
\* substring of the hostname, user-defined patterns before default ones, and
\* "other" for a URL that matches no pattern or cannot be parsed.
C17_LongestMatchWins ==
    call.fn = "categorizeUrl" =>
        LET url == call.args[1]
            domain == LowerCase(Hostname(url))
            user == Matches(call.args[2], domain)
            default == Matches(DEFAULT_CATEGORY_PATTERNS, domain)
        IN  IF ~Parses(url) THEN call.result = "other"
            ELSE IF user # {} THEN LongestIn(user, call.result)
            ELSE IF default # {} THEN LongestIn(default, call.result)
            ELSE call.result = "other"

\* the parts of C17 that hold: the result is the category of some matching
\* pattern, a user-defined one if there is any, and "other" otherwise
C17_UserFirstElseOther ==
    call.fn = "categorizeUrl" =>
        LET url == call.args[1]
            domain == LowerCase(Hostname(url))
            user == Matches(call.args[2], domain)
            default == Matches(DEFAULT_CATEGORY_PATTERNS, domain)
        IN  IF ~Parses(url) THEN call.result = "other"
            ELSE IF user # {} THEN \E m \in user : m.category = call.result
            ELSE IF default # {} THEN \E m \in default : m.category = call.result
            ELSE call.result = "other"

(* ---------------------- C18: snapshot before await --------------------- *)

\* the closes in flight: the snapshots of the handlers awaiting the probe
ClosesInFlight ==
    {tasks[i].snap.sid : i \in {j \in Tasks : tasks[j].pc \in {"hs_probe", "pause_probe"}}}

\* C18: stopActiveTimer has copied and cleared the session fields when it
\* suspends, so no session is closed twice: per opened session at most one
\* close is in flight or done, at most one session_end is appended, and the
\* POST /session requests are as many as the session_end events, also when a
\* pause's close overlaps a handleSwitch's.
C18_ClosedAtMostOnce ==
    /\ \A i \in Tasks :
          tasks[i].pc \in {"hs_probe", "pause_probe"} =>
              /\ tasks[i].snap.sid # Null
              /\ activeSid # tasks[i].snap.sid
              /\ EndsOf(emitted, tasks[i].snap.sid) = 0
              /\ \A j \in Tasks \ {i} :
                    tasks[j].pc \in {"hs_probe", "pause_probe"}
                        => tasks[j].snap.sid # tasks[i].snap.sid
    /\ \A sid \in Tasks : EndsOf(emitted, sid) <= 1
    /\ HasSession => EndsOf(emitted, activeSid) = 0
    /\ Len(SessionPosts(posts)) = NumEnds(emitted)

\* a pause is closing the session the first handler opened, and the
\* stopActiveTimer of a handleSwitch that came meanwhile found nothing to close
C18_Witness ==
    /\ tasks[1].pc = "done" /\ StartsOf(emitted, 1) = 1
    /\ tasks[2].pc = "hs_settings" /\ tasks[2].snap = NoSnap
    /\ tasks[3].pc = "pause_probe" /\ tasks[3].snap.sid = 1
    /\ ~HasSession

(* ------------------------ C19: close before open ---------------------- *)

\* C19: every handleSwitch invocation that is not dropped closes the open
\* session before it evaluates its candidate, whatever the candidate
\* (ineligible, or the open session's own tab and URL), and a session is
\* opened only once the fields of the old one are cleared.
C19_CloseBeforeOpen ==
    [][\A i \in Tasks :
          \* entering, it starts the close of the open session, for any candidate
          /\ \A tab \in Candidates, sync \in BOOLEAN :
                (Transition(i, tab, sync) /\ HasSession) =>
                    /\ ~HasSession'
                    /\ \/ tasks'[i].pc = "hs_probe" /\ tasks'[i].snap.sid = activeSid
                       \/ /\ tasks'[i].pc \in {"hs_settings", "done"}
                          /\ EndsOf(emitted', activeSid) = 1
          \* the candidate is screened once the close has completed
          /\ tasks[i].pc = "hs_probe" =>
                (tasks'[i].pc # "hs_probe" => EndsOf(emitted', tasks[i].snap.sid) = 1)
          /\ (tasks[i].pc = "hs_settings" /\ tasks[i].snap.sid # Null) =>
                EndsOf(emitted, tasks[i].snap.sid) = 1
          \* and the new session's fields are set over cleared ones
          /\ Opens(i) => ~HasSession]_vars

\* the part of C19 that is about one invocation alone
C19_OwnCloseBeforeOpen ==
    [][\A i \in Tasks :
          /\ \A tab \in Candidates, sync \in BOOLEAN :
                (Transition(i, tab, sync) /\ HasSession) =>
                    /\ ~HasSession'
                    /\ \/ tasks'[i].pc = "hs_probe" /\ tasks'[i].snap.sid = activeSid
                       \/ /\ tasks'[i].pc \in {"hs_settings", "done"}
                          /\ EndsOf(emitted', activeSid) = 1
          /\ tasks[i].pc = "hs_probe" =>
                (tasks'[i].pc # "hs_probe" => EndsOf(emitted', tasks[i].snap.sid) = 1)
          /\ (tasks[i].pc = "hs_settings" /\ tasks[i].snap.sid # Null) =>
                EndsOf(emitted, tasks[i].snap.sid) = 1]_vars

(* ----------------------- C20: probe never answers ---------------------- *)

\* C20: the probe never blocks the tracker: a handleSwitch that has taken the
\* switching flag eventually releases it, and a pause is eventually
\* acknowledged, even if the probe never responds.
C20_NeverBlocked ==
    \A i \in Tasks :
        /\ (tasks[i].pc \in {"hs_probe", "hs_settings"}) ~> (tasks[i].pc = "done")
        /\ (tasks[i].pc = "pause_probe") ~> (tasks[i].reply = "paused_true")

(* ------------------------ C21: the lock is released -------------------- *)

\* the step in which the invocation i of handleSwitch, which had taken the
\* lock, returns
Exits(i) == i \in InHandleSwitch /\ tasks'[i].pc = "done"

\* C21: on every exit path of a handleSwitch invocation that took the lock
\* (null or invalid candidate, privileged scheme, excluded URL, failed settings
\* read, session opened) isSwitching is false afterwards; and no failure in a
\* trigger handler leaves it true for good: it is true only while an
\* invocation is in progress, and a failed lookup, probe or settings read
\* leaves it false or leaves the invocation at its settings read, which
\* releases it whatever the answer.
C21_LockReleased ==
    [][/\ \A i \in Tasks :
             \* the exits after the close awaited the probe or after the settings read
             /\ Exits(i) => ~isSwitching'
             \* the exits of an invocation that returns in the step it enters
             /\ \A tab \in Candidates, sync \in BOOLEAN :
                   (Transition(i, tab, sync) /\ tasks'[i].pc = "done") => ~isSwitching'
             \* the failures
             /\ (TabsGetFails(i) \/ FocusQueryFails(i)) => ~isSwitching'
             /\ \A o \in ProbeFailures :
                   HsProbeReturn(i, o) =>
                       \/ ~isSwitching'
                       \/ tasks'[i].pc = "hs_settings"
             /\ tasks[i].pc = "hs_settings" =>
                   /\ ENABLED SettingsReturn(i, FALSE)
                   /\ \A ok \in BOOLEAN : SettingsReturn(i, ok) => Exits(i)
       /\ isSwitching => InHandleSwitch # {}
       /\ isSwitching' => InHandleSwitch' # {}]_vars

\* the first handler opened a session; the second closed it and returned
\* without opening one, its candidate being ineligible or the settings read
\* having failed; the lock is free
C21_Witness ==
    /\ tasks[1].pc = "done" /\ tasks[2].pc = "done" /\ tasks[3].pc = "idle"
    /\ ~paused
    /\ Len(emitted) = 2
    /\ IsStart(emitted[1]) /\ IsEnd(emitted[2])
    /\ ~HasSession
    /\ ~isSwitching

(* ---------------------- C22: who clears the lock ----------------------- *)

\* C22: isSwitching is cleared only by the handleSwitch invocation that set
\* it: a failure in a trigger handler before it enters handleSwitch (tabs.get
\* or tabs.query rejecting) does not clear it while another invocation is in
\* progress.
C22_ClearedByOwnerOnly ==
    [][/\ (isSwitching /\ ~isSwitching') => \E i \in Tasks : Exits(i)
       /\ \A i \in Tasks :
             (TabsGetFails(i) \/ FocusQueryFails(i)) => isSwitching' = isSwitching]_vars

(* ---------------------------- C23: focus lost -------------------------- *)

\* the focus-loss event of handler i has arrived
FocusLost(i) == tasks[i].kind = "focus_lost" /\ tasks[i].pc # "idle"

\* C23 as stated: once the window has lost focus no session is open until a
\* later trigger is processed, also when the focus loss arrives while another
\* transition is in progress: a session that is open was opened by a handler
\* that started after the focus loss.
C23_NoSessionAfterFocusLoss ==
    \A i \in Tasks : (FocusLost(i) /\ HasSession) => activeSid > i

\* C23 as the code has it: a focus loss that handleSwitch does not drop closes
\* the open session in the step it arrives, the fields being null from then
\* on, and opens none itself; a focus loss that arrives while a transition is
\* in progress is dropped and changes nothing, so that the transition in
\* progress goes on to open its session.
C23_FocusLossClosesUnlessBusy ==
    [][\A i \in Tasks :
          /\ \A sync \in BOOLEAN :
                OnFocusLost(i, sync) =>
                    IF paused \/ isSwitching
                    THEN /\ tasks'[i].pc = "done"
                         /\ Active' = Active
                         /\ isSwitching' = isSwitching
                         /\ emitted' = emitted
                         /\ posts' = posts
                    ELSE /\ ~HasSession'
                         /\ NumStarts(emitted') = NumStarts(emitted)
                         /\ IF HasSession
                            THEN \/ /\ tasks'[i].pc = "hs_probe"
                                    /\ tasks'[i].snap.sid = activeSid
                                 \/ /\ tasks'[i].pc = "done"
                                    /\ EndsOf(emitted', activeSid) = 1
                            ELSE tasks'[i].pc = "done" /\ emitted' = emitted
          /\ (FocusLost(i) /\ tasks[i].pc = "hs_probe") =>
                /\ tasks'[i].pc \in {"hs_probe", "done"}
                /\ tasks'[i].pc = "done" =>
                      /\ Active' = Active
                      /\ NumStarts(emitted') = NumStarts(emitted)
                      /\ EndsOf(emitted', tasks[i].snap.sid) = 1
          /\ FocusLost(i) => StartsOf(emitted, i) = 0]_vars

\* the window lost focus with a session open: the focus handler closed the
\* session the first handler had opened and returned, and no session is open
C23_Witness ==
    /\ tasks[1].result = "opened"
    /\ FocusLost(2) /\ tasks[2].result = "ineligible" /\ tasks[2].closed = 1
    /\ tasks[3].pc = "idle"
    /\ EndsOf(emitted, 1) = 1
    /\ ~HasSession /\ ~isSwitching

(* ---------------------------- C24: tab updated ------------------------- *)

\* C24: a tab-updated event triggers a transition exactly when it is for the
\* tab of the open session, the load has finished and the URL has changed;
\* the transition closes the old URL's session and opens one for the new URL
\* on the same tab. Here: an event that does not meet the three conditions
\* leaves the session and the event log as they are.
C24_UpdatedTriggersOnUrlChange ==
    [][\A i \in Tasks, tab \in TabValues, complete \in BOOLEAN, sync \in BOOLEAN :
          (/\ OnUpdated(i, tab, complete, sync)
           /\ ~(HasSession /\ tab.id = activeTabId /\ complete /\ tab.url # activeUrl))
              => /\ Active' = Active
                 /\ emitted' = emitted]_vars

\* what the listener tests: the tab and the finished load, not the URL
C24_UpdatedTriggersOnComplete ==
    [][\A i \in Tasks, tab \in TabValues, complete \in BOOLEAN, sync \in BOOLEAN :
          OnUpdated(i, tab, complete, sync) =>
              IF ~paused /\ ~isSwitching /\ HasSession /\ tab.id = activeTabId /\ complete
              THEN /\ ~HasSession'
                   /\ \/ tasks'[i].pc = "hs_probe" /\ tasks'[i].snap.sid = activeSid
                      \/ EndsOf(emitted', activeSid) = 1
              ELSE /\ Active' = Active
                   /\ emitted' = emitted]_vars

(* --------------------- C25: a close is never cancelled ----------------- *)

\* the handler i is awaiting the probe for the close of the session it has
\* snapshotted
Closes(i) == tasks[i].pc \in {"hs_probe", "pause_probe"}

\* C25: once stopActiveTimer has snapshotted a session no later event cancels
\* or alters the close: the snapshot stays as it is whatever happens
\* meanwhile, the probe's answer appends the one session_end of that session,
\* with the snapshot's url and duration = end - start, whatever session is
\* open by then, and with a probe that answers the session_end is eventually
\* appended.
C25_CloseRunsToCompletion ==
    /\ [][\A i \in Tasks :
             Closes(i) =>
                 LET sn == tasks[i].snap
                 IN  /\ EndsOf(emitted, sn.sid) = 0
                     /\ Closes(i)' => tasks'[i].snap = sn
                     /\ ~Closes(i)' =>
                           /\ EndsOf(emitted', sn.sid) = 1
                           /\ \E k \in (Len(emitted) + 1)..Len(emitted') :
                                 emitted'[k] = EndEvent(sn.url, sn.start, sn.end, sn.sid)
                           /\ \E k \in (Len(posts) + 1)..Len(posts') :
                                 posts'[k] = SessionPost(sn.url, sn.start, sn.end)]_vars
    /\ \A i \in Tasks, sid \in Tasks :
          (Closes(i) /\ tasks[i].snap.sid = sid) ~> (EndsOf(emitted, sid) = 1)

\* a pause closed the session on A opened at time 1; before the probe
\* answered, a resume opened a session on B; the session_end of A, with
\* duration 1, was appended after the session_start of B, which is still open
C25_Witness ==
    /\ tasks[2].reply = "paused_true"
    /\ tasks[3].reply = "paused_false"
    /\ Len(emitted) >= 3
    /\ Last(emitted) = EndEvent(UrlA, 1, 2, 1)
    /\ emitted[Len(emitted) - 1] = StartEvent(UrlB, 2, 3)
    /\ HasSession /\ activeUrl = UrlB /\ activeSid = 3

(* ------------------------ C26: append-only log ------------------------- *)

\* every storage request issued has been carried out and every callback run
StorageIdle ==
    /\ storage.served = Len(emitted)
    /\ storage.replies = << >>
    /\ storage.sets = << >>

\* C26: the event log is append-only under concurrency: once all pending
\* storage operations have completed, every event passed to persistEvent that
\* is within the retention horizon is in the stored list, two appends issued
\* back-to-back included.
C26_AppendOnly ==
    StorageIdle =>
        \A k \in 1..Len(emitted) :
            emitted[k].ts >= now - Retention =>
                \E j \in 1..Len(storage.events) : storage.events[j] = emitted[k]

(* ---------------------------- C27: the flush --------------------------- *)

\* C27: the periodic flush never changes activeTabId, activeUrl, activeStart,
\* paused or isSwitching and never closes the session; a flush that fires
\* while paused or with no session open does nothing; an engagement event is
\* appended only if the probe returned counters of which one is nonzero.
C27_FlushFrame ==
    [][\A i \in Tasks :
          /\ \A sync \in BOOLEAN :
                OnFlush(i, sync) =>
                    /\ Active' = Active
                    /\ paused' = paused
                    /\ isSwitching' = isSwitching
                    /\ emitted' = emitted
                    /\ posts' = posts
                    /\ (paused \/ ~HasSession) => tasks'[i].pc = "done"
          /\ \A o \in FlushCallbacks :
                FlushReturn(i, o) =>
                    /\ Active' = Active
                    /\ paused' = paused
                    /\ isSwitching' = isSwitching
                    /\ posts' = posts
                    /\ IF o.kind = "response" /\ o.engagement # NoEng
                          /\ \E c \in 1..3 : o.engagement[c] # 0
                       THEN /\ Len(emitted') = Len(emitted) + 1
                            /\ IsPrefix(emitted, emitted')
                            /\ Last(emitted').type = "engagement"
                            /\ Last(emitted').data = o.engagement
                            /\ Last(emitted').ts = now
                       ELSE emitted' = emitted]_vars

\* the second handler was a flush of the session the first had opened: its
\* engagement event follows the session_start, and the session is still open
C27_Witness ==
    /\ tasks[1].pc = "done" /\ tasks[2].pc = "done" /\ tasks[3].pc = "idle"
    /\ Len(emitted) = 2
    /\ emitted[1] = StartEvent(activeUrl, activeStart, 1)
    /\ emitted[2].type = "engagement" /\ emitted[2].url = activeUrl
    /\ HasSession /\ activeSid = 1 /\ ~paused /\ ~isSwitching

(* ----------------------- C28: the flush's snapshot --------------------- *)

\* C28: every engagement event the flush appends carries the URL of the
\* session that was open when the flush requested the counters, never that of
\* a session opened later and never a null URL, even if a transition closes
\* or replaces the session before the probe's response arrives.
C28_FlushUsesSnapshotUrl ==
    [][\A i \in Tasks, o \in FlushCallbacks :
          (FlushReturn(i, o) /\ emitted' # emitted) =>
              /\ Last(emitted').url = tasks[i].snap.url
              /\ Last(emitted').url # NoUrl]_vars

(* ----------------------- C29: ineligible candidates -------------------- *)

\* a candidate that is null, lacks an id or a URL, or shows a privileged page
Ineligible(tab) == InvalidTab(tab) \/ IsPrivileged(tab.url)

\* the step in which the handleSwitch invocation i, which was not dropped,
\* returns for an ineligible candidate: in the step it enters, or when the
\* probe has answered its close
ReturnsIneligible(i) ==
    \/ \E tab \in Candidates, sync \in BOOLEAN :
          Ineligible(tab) /\ Transition(i, tab, sync) /\ tasks'[i].pc = "done"
    \/ /\ tasks[i].pc = "hs_probe"
       /\ Ineligible(tasks[i].tab)
       /\ tasks'[i].pc = "done"

\* C29: handleSwitch never opens a session for a candidate that is null,
\* lacks an id or a URL, or whose URL starts with chrome:// or
\* chrome-extension://; when such an invocation returns, activeTabId,
\* activeUrl and activeStart are null and it has emitted no session_start.
C29_IneligibleNeverOpens ==
    [][\A i \in Tasks :
          /\ tasks[i].pc = "hs_settings" => ~Ineligible(tasks[i].tab)
          /\ ReturnsIneligible(i) =>
                /\ NumStarts(emitted') = NumStarts(emitted)
                /\ StartsOf(emitted', i) = 0
                /\ activeTabId' = Null /\ activeUrl' = NoUrl /\ activeStart' = Null]_vars

\* the part of C29 that is about the invocation alone: it never reaches the
\* settings read, emits no session_start and sets no session field
C29_IneligibleNotOpened ==
    [][\A i \in Tasks :
          /\ tasks[i].pc = "hs_settings" => ~Ineligible(tasks[i].tab)
          /\ ReturnsIneligible(i) =>
                /\ NumStarts(emitted') = NumStarts(emitted)
                /\ StartsOf(emitted', i) = 0
                /\ HasSession' => (HasSession /\ Active' = Active)]_vars

(* ------------------------- C30: what a close sends --------------------- *)

\* the page answered with a text that is not empty
GotText(o) == o.kind = "response" /\ Len(o.text) > 0

\* the page answered with counters of which at least one is nonzero
GotCounters(o) ==
    /\ o.kind = "response"
    /\ o.engagement # NoEng
    /\ \E c \in 1..3 : o.engagement[c] # 0

\* C30: at close the retrieved text is sent to the Remote Sink if and only if
\* it is not empty, and a final engagement event with ts = the session's end
\* is appended if and only if the probe returned counters of which one is
\* nonzero; when appended, it is issued before the session_end.
C30_CloseSendsWhatItGot ==
    [][\A i \in Tasks, o \in CloseCallbacks :
          (HsProbeReturn(i, o) \/ PauseProbeReturn(i, o)) =>
              LET sn == tasks[i].snap
                  newPosts == SubSeq(posts', Len(posts) + 1, Len(posts'))
                  newEvents == SubSeq(emitted', Len(emitted) + 1, Len(emitted'))
                  html == SelectSeq(newPosts, LAMBDA q : q.api = "html")
                  eng == SelectSeq(newEvents, LAMBDA e : e.type = "engagement")
              IN  /\ IsPrefix(posts, posts') /\ IsPrefix(emitted, emitted')
                  /\ Len(html) = (IF GotText(o) THEN 1 ELSE 0)
                  /\ GotText(o) => (html[1].url = sn.url /\ html[1].html = o.text)
                  /\ Len(eng) = (IF GotCounters(o) THEN 1 ELSE 0)
                  /\ GotCounters(o) =>
                        /\ newEvents[1] = eng[1]
                        /\ eng[1].ts = sn.end
                        /\ eng[1].url = sn.url
                        /\ eng[1].data = o.engagement
                  /\ Last(newEvents) = EndEvent(sn.url, sn.start, sn.end, sn.sid)
                  /\ Len(newEvents) = Len(eng) + 1]_vars

\* a pause closed the first handler's session and the page answered without
\* text and with one key stroke: the session alone was sent, and the final
\* engagement event precedes the session_end, with the same ts
C30_Witness ==
    /\ tasks[2].reply = "paused_true"
    /\ Len(posts) = 1 /\ posts[1].api = "session"
    /\ Len(emitted) = 3
    /\ IsStart(emitted[1])
    /\ emitted[2].type = "engagement" /\ emitted[2].data = <<0, 1, 0>>
    /\ IsEnd(emitted[3]) /\ emitted[3].ts = emitted[2].ts

(* --------------------------- C31: install handler ---------------------- *)

\* C31: the install handler seeds events to [] and settings to
\* {contentScanning: false, excludeList: []} only when the key is absent from
\* storage; events and settings that exist are left as they are, so that
\* running the handler again loses no data.
C31_SeedsOnlyAbsentKeys ==
    [][InstalledCallback =>
          /\ local'.events = (IF local.events = << >> THEN << << >> >> ELSE local.events)
          /\ local'.settings = (IF local.settings = << >>
                                THEN <<DefaultSettings>> ELSE local.settings)
          /\ ("events" \in local'.seeded \ local.seeded) => local.events = << >>
          /\ ("settings" \in local'.seeded \ local.seeded) => local.settings = << >>]_vars

\* the handler has run twice over stored events without settings: it has
\* seeded the settings alone, and the two events are still stored
C31_Witness ==
    /\ local.runs = 2 /\ local.replies = << >>
    /\ local.seeded = {"settings"}
    /\ local.settings = <<DefaultSettings>>
    /\ Len(local.events[1]) = 2

(* --------------- C32: navigation away from an ineligible page --------- *)

\* C32: if the active tab navigates in place from an ineligible URL (so that
\* no session is open) to an eligible URL while tracking is not paused, a
\* session is opened for the new URL once the load completes, without a
\* further tab or window event. Here, what that takes: the tab-updated event
\* of the finished load, arriving with no session open and no transition in
\* progress, enters handleSwitch, which goes on to read the settings in order
\* to open the session.
C32_NavigationOpensSession ==
    [][\A i \in Tasks, tab \in TabValues, sync \in BOOLEAN :
          (/\ OnUpdated(i, tab, TRUE, sync)
           /\ ~paused /\ ~isSwitching /\ ~HasSession
           /\ Eligible(tab))
              => tasks'[i].pc = "hs_settings"]_vars

(* ------------------------- C33: events that are ignored ---------------- *)

\* C33: a tab-updated event for a tab other than the open session's tab, and
\* any tab-activation, focus or tab-updated event received while paused is
\* true, leaves activeTabId, activeUrl, activeStart, switching and the event
\* log unchanged (and the handler returns in that step: nothing of it is
\* left to run later).
C33_IgnoredEvents ==
    [][\A i \in Tasks :
          (\/ \E tab \in TabValues, complete \in BOOLEAN, sync \in BOOLEAN :
                  OnUpdated(i, tab, complete, sync) /\ (paused \/ tab.id # activeTabId)
           \/ paused /\ \E tabId \in TabIds : OnActivated(i, tabId)
           \/ paused /\ \E sync \in BOOLEAN : OnFocusLost(i, sync)
           \/ paused /\ OnFocusGained(i))
              => /\ Active' = Active
                 /\ isSwitching' = isSwitching
                 /\ emitted' = emitted
                 /\ tasks'[i].pc = "done"]_vars

\* a session was opened and then closed by a pause, and a third handler,
\* started while paused was true, has returned: the tracker is as the pause
\* left it
C33_Witness ==
    /\ paused /\ ~HasSession /\ ~isSwitching
    /\ \A i \in 1..3 : tasks[i].pc = "done"
    /\ tasks[2].reply = "paused_true"
    /\ tasks[3].reply = "none"
    /\ Len(emitted) = 2 /\ IsStart(emitted[1]) /\ IsEnd(emitted[2])

(* ------------------ C34: pauseTracking saves the elapsed time ---------- *)

\* pauseTracking i is past its call of saveTabTime, to which it passed
\* at least one second on a site that is not excluded
PauseOwes(i) ==
    LET h == standalone.handlers[i]
    IN  /\ h.caller = "pause" /\ h.pc = "pause_set"
        /\ h.saveUrl # NoUrl
        /\ h.timeSpent >= OneSecond
        /\ ~IsExcluded(ExcludedSites, h.saveUrl)

\* C34: in the standalone background script, pauseTracking records the time
\* spent on the current tab up to the pause: when its call of saveTabTime was
\* given at least one second on a site that is not excluded, the call returns
\* only after saveTabTime has added the time to the site's timeSpent (it
\* returns from its updateStoredData, which follows the addition).
C34_PauseSavesElapsed ==
    [][\A i \in Tasks :
          (~PauseOwes(i) /\ PauseOwes(i)') =>
              standalone.handlers[i].pc = "save_stored"]_vars

(* --------------------- C35: the reply to getTodayStats ----------------- *)

\* C35: in the standalone background script, a getTodayStats request is
\* always answered with the stats object {totalTime, topSites, isPaused,
\* sessionCount} that getTodayStats computed, never with an {error} reply.
C35_StatsAnswered ==
    [][\A i \in Tasks :
          (standalone.handlers[i].pc = "stats_get" /\ standalone'.handlers[i].pc = "done") =>
              \E ok \in BOOLEAN :
                  standalone'.handlers[i].reply = [kind |-> "stats", stats |-> GetTodayStats(ok)]]_vars

(* ------------------- C38: totalTime and the sites' times --------------- *)

RECURSIVE SumTimeSpent(_, _)
SumTimeSpent(sites, ds) ==
    IF ds = {}
    THEN 0
    ELSE LET d == CHOOSE x \in ds : TRUE
         IN  sites[d].timeSpent + SumTimeSpent(sites, ds \ {d})

\* no call of the standalone script is suspended
SaQuiescent == \A i \in Tasks : standalone.handlers[i].pc \in {"idle", "done"}

\* C38: in the standalone background script, once the calls of saveTabTime,
\* trackPageVisit, updateStoredData, pauseTracking and resumeTracking made so
\* far have returned, currentSession.totalTime equals the sum of timeSpent
\* over the entries of currentSession.sites.
C38_TotalIsSumOfSites ==
    SaQuiescent =>
        standalone.currentSession.totalTime =
            SumTimeSpent(standalone.currentSession.sites, Domains)

(* ---------------- C36: the close that outlives its session ------------ *)

\* C36: in the development-mode variant, when handleSwitch replaces an open
\* session by a session for a different tab or URL, the new session's
\* activeTabId, activeUrl and activeStart are still set after the previous
\* session's asynchronous close has finished, and that close reports the
\* previous session's own start time: its session_end carries the end and the
\* duration of the session it closes, and every request it issues that
\* session's start.
C36_CloseLeavesNewSession ==
    [][\A i \in Tasks, text \in Texts \cup {NoText} :
          (/\ DevProbeReturn(i, text)
           /\ HasSession
           /\ activeSid # tasks[i].snap.sid)
              => /\ activeTabId' = activeTabId
                 /\ activeUrl' = activeUrl
                 /\ activeStart' = activeStart
                 /\ Last(emitted').ts = tasks[i].snap.end
                 /\ Last(emitted').duration =
                        DurationSeconds(tasks[i].snap.end - tasks[i].snap.start)
                 /\ \A k \in (Len(posts) + 1)..Len(posts') :
                        posts'[k].api = "session" => posts'[k].startTime = tasks[i].snap.start]_vars

(* ------------------ C37: handleSwitch for the open session ------------- *)

\* C37: in the development-mode variant, handleSwitch for the same tab and
\* URL as the open session (window focus regained on the same tab, say)
\* leaves the session unchanged: activeStart is not reset and no additional
\* session_start event is emitted.
C37_SameTabKeepsSession ==
    [][\A i \in Tasks, ok \in BOOLEAN :
          (/\ DevSettingsReturn(i, ok)
           /\ HasSession
           /\ activeTabId = tasks[i].tab.id
           /\ activeUrl = tasks[i].tab.url)
              => /\ activeTabId' = activeTabId
                 /\ activeUrl' = activeUrl
                 /\ activeStart' = activeStart
                 /\ emitted' = emitted]_vars

====
